---- MODULE Spec2Model ----
(***************************************************************************)
(* Verification model of the mkTools build-script generator for apps      *)
(* (appBuildScript.cpp), of the binding resolver, of the .api file         *)
(* registry and of the file-system items (modellerCommon.cpp).             *)
(*                                                                         *)
(* Paths are sequences of path nodes (the text between the '/'), so that a *)
(* path ending in '/' has the empty string as its last node; a string      *)
(* built by concatenation is the sequence of its pieces.  The statements   *)
(* the component and executable generators write (compiling and linking)   *)
(* are not followed: the script holds the header and the statements        *)
(* appBuildScript.cpp writes itself.                                       *)
(***************************************************************************)
EXTENDS Integers, Sequences, FiniteSets, TLC

VARIABLES
    \* ---- build-script generator (AppBuildScriptGenerator_t) ----
    script,          \* the output stream: the sequence of entries written so far
    allBundledFiles, \* FileSystemAppInfo_t::allBundledFiles
    phase,           \* position inside Generate()
    pending,         \* directory entries readdir() has still to return
    curComp,         \* the component the component loop is at
    compsDone,       \* components of the app already iterated
    exesDone,        \* executables of the app already iterated
    lastCall,        \* argument and lookup result of the last bundle call
    genErr,          \* the exception that ended generation, if any
    packArgs,        \* buildParams.binPack and the files of the registry
    appLevel,        \* in a run that follows it: the bundled set as the loops
                     \* over the app's own items left it
    \* ---- binding resolver (modeller) ----
    ifs,             \* the client interface instances of the system model
    bindingPtr,      \* ApiClientInterfaceInstance_t::bindingPtr of each
    pass,            \* the resolver function that ran last, and its argument
    before,          \* bindingPtr of each interface when that pass began
    visited,         \* the interfaces the last pass reached, in order
    bindErr,         \* the exception that ended the last pass, if any
    \* ---- .api file registry (model::ApiFile_t, modeller::GetApiFilePtr) ----
    usetypes,        \* the USETYPES directives of each .api file on disk
    apiFileMap,      \* the registry: file path to ApiFile_t pointer
    apiObjs,         \* the ApiFile_t objects created so far, by pointer
    parsed,          \* how often GetDependencies() has read each file
    callStack,       \* the GetApiFilePtr() calls in progress, innermost last
    apiCall,         \* arguments and result of the outermost call
    requested,       \* the paths outermost calls were made for
    returned,        \* the pointers calls have returned for each path
    apiLast,         \* what the USETYPES handler did last
    apiErr,          \* the exception that ended resolution, if any
    \* ---- file-system items of the model (modeller) ----
    numObjs,         \* how many FileSystemObject_t have been created (new)
    modObj,          \* the object the last call returned
    modCall,         \* the last call: function, item, objects created before
    modErr,          \* the exception that ended modelling, if any
    \* ---- parser of definition files (parser.cpp) ----
    defFile,         \* the lexemes of the definition file
    lexer,           \* Lexer_t: the input still to read, the line and column
    open,            \* the parse tree objects whose loops are running, innermost last
    sections,        \* DefFile_t::sections
    started,         \* the name tokens the section parser was called at
    parseErr,        \* the exception that ended parsing, if any
    parsePhase,      \* position inside ParseFile()
    \* ---- values of simple sections (modeller) ----
    modelled,        \* how many sections of the file have been modelled
    watchdogTimeout, \* appPtr->watchdogTimeout
    secCall,         \* the last call: function, section and value returned
    secErr           \* the exception that ended the modelling of sections, if any

genVars == <<script, allBundledFiles, phase, pending, curComp,
             compsDone, exesDone, lastCall, genErr, packArgs, appLevel>>
bindVars == <<ifs, bindingPtr, pass, before, visited, bindErr>>
apiVars == <<usetypes, apiFileMap, apiObjs, parsed, callStack, apiCall,
             requested, returned, apiLast, apiErr>>
modVars == <<numObjs, modObj, modCall, modErr>>
parseVars == <<defFile, lexer, open, sections, started, parseErr, parsePhase>>
secVars == <<modelled, watchdogTimeout, secCall, secErr>>
vars == <<genVars, bindVars, apiVars, modVars, parseVars, secVars>>

\* What each part of the tool leaves alone.
nonGenVars == <<bindVars, apiVars, modVars, parseVars, secVars>>
nonBindVars == <<genVars, apiVars, modVars, parseVars, secVars>>
nonApiVars == <<genVars, bindVars, modVars, parseVars, secVars>>

----------------------------------------------------------------------------
\* Bounds of the model.

\* Longest script (in entries) the generator is followed to.
MaxScript == 4

\* Number of client interface instances in the system model.
NumIfaces == 2

\* Most FileSystemObject_t objects the modeller is followed to.
MaxItems == 2

\* Most ApiFile_t objects created, and deepest nesting of GetApiFilePtr()
\* calls, that resolution is followed to.
MaxObjects == 5
MaxDepth == 5

\* The width in bits of the machine integers (size_t, long) of the model.
WordBits == 16

----------------------------------------------------------------------------
\* model::Permissions_t

Permissions_t(r, w, x) == [readable |-> r, writeable |-> w, executable |-> x]

PermR  == Permissions_t(TRUE, FALSE, FALSE)
PermRW == Permissions_t(TRUE, TRUE, FALSE)
PermRX == Permissions_t(TRUE, FALSE, TRUE)

\* model::FileSystemObject_t (the parse-tree pointer is for diagnostics only)
FileSystemObject_t(src, dest, perm) ==
    [srcPath |-> src, destPath |-> dest, permissions |-> perm]

NoObject == [srcPath |-> <<>>, destPath |-> <<"<none>">>, permissions |-> PermR]

----------------------------------------------------------------------------
\* The source file system the generator walks, and the app model it is given.

SrcA == <<"a", "x">>
SrcB == <<"b", "x">>

\* Directory contents: what a directory holds besides "." and "..".
DirEntries(path) ==
    CASE path = <<"a">>        -> {"x", "sub"}
      [] path = <<"a", "sub">> -> {"y"}
      [] path = <<"b">>        -> {"x", "s"}
      [] OTHER                 -> {}

\* readdir(), to the end of the directory: the names of all its entries.
ReadDir(path) == DirEntries(path) \cup {".", ".."}

\* file::DirectoryExists
DirectoryExists(path) == path \in {<<"a">>, <<"a", "sub">>, <<"b">>}

\* file::FileExists
FileExists(path) == path \in {SrcA, SrcB, <<"a", "sub", "y">>}

\* Bundled items an app or a component may declare (bundles: file: sections).
FileItems ==
    { FileSystemObject_t(s, d, p) :
        s \in {SrcA, SrcB},
        d \in {<<"x">>, <<"lib", "libA.so">>},
        p \in {PermR, PermRW, PermRX} }

\* bundles: dir: sections.
DirItems ==
    { FileSystemObject_t(s, <<>>, p) :
        s \in {<<"a">>, <<"b">>, SrcA}, p \in {PermR, PermRW} }
      \cup { FileSystemObject_t(<<"a">>, <<"d">>, PermR) }

\* bundledBinaries of the app.
BinaryItems == { FileSystemObject_t(SrcA, <<"bin", "e1">>, PermRX) }

\* The components an app may use: kind of code, and built library path.
Components == {"c1", "c2", "c3"}
HasCOrCppCode(c) == c = "c1"
HasJavaCode(c) == c = "c2"
Lib(c) == IF c = "c1" THEN <<"$builddir", "lib", "libA.so">>
          ELSE <<"$builddir", "lib", "libB.jar">>

\* The executables an app may have.
Executables == {"e1", "e2"}

WorkingDir == "app"

----------------------------------------------------------------------------
\* Path helpers (path.h).

\* path::GetLastNode
GetLastNode(path) == IF path = <<>> THEN "" ELSE path[Len(path)]

\* path::Combine, and Path_t::operator+=
Combine(base, nodes) == base \o nodes

----------------------------------------------------------------------------
\* Exceptions of the generator.

NoErr == [kind |-> "none", srcPath |-> <<>>, destPath |-> <<>>, existing |-> <<>>]

\* "Cannot bundle file '%s' with destination '%s' since it conflicts with
\* existing bundled file '%s'."
ConflictError(src, dest, existing) ==
    [kind |-> "conflict", srcPath |-> src, destPath |-> dest, existing |-> existing]

\* "Cannot bundle file '%s'.  It is already bundled with different permissions."
PermissionError(src) ==
    [kind |-> "permissions", srcPath |-> src, destPath |-> <<>>, existing |-> <<>>]

\* "Not a directory: '%s'."
NotADirError(src) ==
    [kind |-> "notdir", srcPath |-> src, destPath |-> <<>>, existing |-> <<>>]

\* "File system object is not a directory or a file: '%s'."
UnsupportedError(src) ==
    [kind |-> "unsupported", srcPath |-> src, destPath |-> <<>>, existing |-> <<>>]

----------------------------------------------------------------------------
\* Script entries.

\* The order-only part of a build statement: whether "||" is written, and the
\* paths after it.
NoOrderOnly == [written |-> FALSE, deps |-> {}]

Header == [rule |-> "#header", out |-> <<>>, in |-> <<>>, modeFlags |-> <<>>,
           implicit |-> {}, orderOnly |-> NoOrderOnly]

\* build <out> : <rule> <in> [| implicit...]   (modeFlags = ...)
BuildStmt(out, rule, in, flags, implicit) ==
    [rule |-> rule, out |-> out, in |-> in, modeFlags |-> flags,
     implicit |-> implicit, orderOnly |-> NoOrderOnly]

\* Variant: no execute permission is given to others.
PermissionsToModeFlags_OtherNoExecute(permissions) ==
    LET executableFlag == IF permissions.executable THEN "+x" ELSE "-x"
    IN  <<"u+rw", executableFlag, ",g+r", executableFlag, ",o", "-x",
          IF permissions.readable THEN "+r" ELSE "-r",
          IF permissions.writeable THEN "+w" ELSE "-w">>

\* PermissionsToModeFlags(permissions): the pieces of the string, in the
\* order they are concatenated.
PermissionsToModeFlags(permissions) ==
    LET executableFlag == IF permissions.executable THEN "+x" ELSE "-x"
    IN  <<"u+rw", executableFlag, ",g+r", executableFlag, ",o", executableFlag,
          IF permissions.readable THEN "+r" ELSE "-r",
          IF permissions.writeable THEN "+w" ELSE "-w">>

\* model::FileSystemObjectSet_t::find: the set is ordered by destination path,
\* so an object is found when one with its destination path is in the set.
FindBundled(bundledFiles, fileObject) ==
    { o \in bundledFiles : o.destPath = fileObject.destPath }

\* model::FileSystemObjectSet_t::insert: no effect when an equivalent element
\* (same destination path) is in the set already.
InsertBundled(bundledFiles, fileObject) ==
    IF FindBundled(bundledFiles, fileObject) = {}
    THEN bundledFiles \cup {fileObject}
    ELSE bundledFiles

NoCall == [obj |-> NoObject, found |-> {}, scriptLen |-> 0]

\* Variant: the source paths of the two objects are not compared.
GenerateFileBundleBuildStatement_NoSourceCheck(fileObject) ==
    LET found == FindBundled(allBundledFiles, fileObject)
    IN  /\ lastCall' = [obj |-> fileObject, found |-> found,
                        scriptLen |-> Len(script)]
        /\ IF found = {}
           THEN /\ script' = Append(script,
                       BuildStmt(fileObject.destPath, "BundleFile",
                                 fileObject.srcPath,
                                 PermissionsToModeFlags(fileObject.permissions),
                                 {}))
                /\ allBundledFiles' = InsertBundled(allBundledFiles, fileObject)
                /\ genErr' = genErr
           ELSE LET bundledFile == CHOOSE o \in found : TRUE
                IN  /\ UNCHANGED <<script, allBundledFiles>>
                    /\ genErr' =
                         IF fileObject.permissions # bundledFile.permissions
                         THEN PermissionError(fileObject.srcPath)
                         ELSE genErr

\* GenerateFileBundleBuildStatement(fileObject, bundledFiles)
GenerateFileBundleBuildStatement(fileObject) ==
    LET found == FindBundled(allBundledFiles, fileObject)
    IN  /\ lastCall' = [obj |-> fileObject, found |-> found,
                        scriptLen |-> Len(script)]
        /\ IF found = {}
           THEN /\ script' = Append(script,
                       BuildStmt(fileObject.destPath, "BundleFile",
                                 fileObject.srcPath,
                                 PermissionsToModeFlags(fileObject.permissions),
                                 {}))
                /\ allBundledFiles' = InsertBundled(allBundledFiles, fileObject)
                /\ genErr' = genErr
           ELSE LET bundledFile == CHOOSE o \in found : TRUE
                IN  /\ UNCHANGED <<script, allBundledFiles>>
                    /\ genErr' =
                         IF fileObject.srcPath # bundledFile.srcPath
                         THEN ConflictError(fileObject.srcPath,
                                            fileObject.destPath,
                                            bundledFile.srcPath)
                         ELSE IF fileObject.permissions # bundledFile.permissions
                         THEN PermissionError(fileObject.srcPath)
                         ELSE genErr

\* The staging path an app's bundled object is put at (both 3-argument
\* overloads): $builddir/<workingDir>/staging/{writeable|read-only}/<destPath>
StagingDestPath(fileSystemObj) ==
    Combine(<<"$builddir", WorkingDir, "staging",
              IF fileSystemObj.permissions.writeable
              THEN "writeable" ELSE "read-only">>,
            fileSystemObj.destPath)

\* GenerateFileBundleBuildStatement(bundledFiles, appPtr, fileSystemObjPtr)
GenerateFileBundleBuildStatementInApp(fileSystemObj) ==
    GenerateFileBundleBuildStatement(
        FileSystemObject_t(fileSystemObj.srcPath,
                           StagingDestPath(fileSystemObj),
                           fileSystemObj.permissions))

----------------------------------------------------------------------------
\* Directory bundling.

\* The orders in which readdir() may return a set of entries.
Orders(S) ==
    { o \in [1..Cardinality(S) -> S] : \A i, j \in DOMAIN o : i # j => o[i] # o[j] }

\* (strcmp(entryPtr->d_name, ".") == 0) || (strcmp(entryPtr->d_name, "..") == 0):
\* the entries the loop passes over, wherever readdir() returns them.
IsDotOrDotDot(name) == name \in {".", ".."}

\* Variant: an entry is given the destination of the directory it is in.
Entry_SameDest(fileObject, name) ==
    FileSystemObject_t(Combine(fileObject.srcPath, <<name>>),
                       fileObject.destPath,
                       fileObject.permissions)

\* The object made for an entry of a directory: entrySrcPath, entryDestPath
\* and the permissions of the directory.
Entry(fileObject, name) ==
    FileSystemObject_t(Combine(fileObject.srcPath, <<name>>),
                       Combine(fileObject.destPath, <<name>>),
                       fileObject.permissions)

RECURSIVE DirWalks(_), EntriesWalks(_, _)

\* The calls the loop of GenerateDirBundleBuildStatements(fileObject, bundledFiles)
\* makes for the entries of one directory, in each order readdir() may return
\* them: a file entry is a call of GenerateFileBundleBuildStatement, a directory
\* entry the calls of the recursive descent into it, any other entry the throw.
DirWalks(fileObject) ==
    UNION { EntriesWalks(fileObject, o) :
              o \in Orders({ name \in ReadDir(fileObject.srcPath) : ~IsDotOrDotDot(name) }) }

EntriesWalks(fileObject, names) ==
    IF names = <<>> THEN { <<>> }
    ELSE LET entry == Entry(fileObject, Head(names))
             entrySrcPath == entry.srcPath
             first == IF DirectoryExists(entrySrcPath) THEN DirWalks(entry)
                      ELSE IF FileExists(entrySrcPath)
                      THEN { << [kind |-> "file", obj |-> entry] >> }
                      ELSE { << [kind |-> "other", obj |-> entry] >> }
         IN  { a \o b : a \in first, b \in EntriesWalks(fileObject, Tail(names)) }

\* GenerateDirBundleBuildStatements(fileObject, bundledFiles): opendir(), then
\* the entries are handed out one by one (DirEntry).
GenerateDirBundleBuildStatements(fileObject) ==
    /\ lastCall' = NoCall
    /\ UNCHANGED <<script, allBundledFiles>>
    /\ IF ~DirectoryExists(fileObject.srcPath)
       THEN /\ genErr' = NotADirError(fileObject.srcPath)
            /\ pending' = <<>>
       ELSE /\ genErr' = genErr
            /\ \E walk \in DirWalks(fileObject) :
                  /\ Len(script) + Len(walk) <= MaxScript
                  /\ pending' = walk

\* GenerateDirBundleBuildStatements(bundledFiles, appPtr, fileSystemObjPtr)
GenerateDirBundleBuildStatementsInApp(fileSystemObj) ==
    GenerateDirBundleBuildStatements(
        FileSystemObject_t(fileSystemObj.srcPath,
                           StagingDestPath(fileSystemObj),
                           fileSystemObj.permissions))

\* The phase generation is in after a call that may have thrown.
After(next) == IF genErr' # NoErr THEN "failed" ELSE next

\* One iteration of the readdir() loop.
DirEntry ==
    /\ phase \in {"appDirs", "compDirs"}
    /\ pending # <<>>
    /\ pending' = IF Head(pending).kind = "file" THEN Tail(pending) ELSE <<>>
    /\ IF Head(pending).kind = "file"
       THEN GenerateFileBundleBuildStatement(Head(pending).obj)
       ELSE /\ genErr' = UnsupportedError(Head(pending).obj.srcPath)
            /\ lastCall' = NoCall
            /\ UNCHANGED <<script, allBundledFiles>>
    /\ phase' = After(phase)
    /\ UNCHANGED <<curComp, compsDone, exesDone, packArgs, appLevel, nonGenVars>>

----------------------------------------------------------------------------
\* Generate(appPtr) and GenerateStagingBundleBuildStatements(appPtr), loop by loop.

\* Generate(): the comment header, the variable definitions and the rules.
GenerateCommentHeader ==
    /\ phase = "start"
    /\ script' = Append(script, Header)
    /\ phase' = "appFiles"
    /\ lastCall' = NoCall
    /\ UNCHANGED <<allBundledFiles, pending, curComp, compsDone, exesDone,
                   genErr, packArgs, appLevel, nonGenVars>>

\* for (auto fileSystemObjPtr : appPtr->bundledFiles)
BundleAppFile ==
    /\ phase = "appFiles"
    /\ Len(script) < MaxScript
    /\ \E item \in FileItems : GenerateFileBundleBuildStatementInApp(item)
    /\ phase' = After("appFiles")
    /\ UNCHANGED <<pending, curComp, compsDone, exesDone, packArgs, appLevel, nonGenVars>>

\* for (auto fileSystemObjPtr : appPtr->bundledDirs)
BundleAppDir ==
    /\ phase = "appDirs"
    /\ pending = <<>>
    /\ \E item \in DirItems : GenerateDirBundleBuildStatementsInApp(item)
    /\ phase' = After("appDirs")
    /\ UNCHANGED <<curComp, compsDone, exesDone, packArgs, appLevel, nonGenVars>>

\* for (auto fileSystemObjPtr : appPtr->bundledBinaries)
BundleAppBinary ==
    /\ phase = "appBinaries"
    /\ Len(script) < MaxScript
    /\ \E item \in BinaryItems : GenerateFileBundleBuildStatementInApp(item)
    /\ phase' = After("appBinaries")
    /\ UNCHANGED <<pending, curComp, compsDone, exesDone, packArgs, appLevel, nonGenVars>>

\* for (auto componentPtr : appPtr->components): the next component
NextComponent ==
    /\ phase = "components"
    /\ \E c \in Components \ compsDone :
          /\ curComp' = c
          /\ compsDone' = compsDone \cup {c}
    /\ phase' = "compFiles"
    /\ lastCall' = NoCall
    /\ UNCHANGED <<script, allBundledFiles, pending, exesDone, genErr, packArgs,
                   appLevel, nonGenVars>>

\* for (auto fileSystemObjPtr : componentPtr->bundledFiles)
BundleComponentFile ==
    /\ phase = "compFiles"
    /\ Len(script) < MaxScript
    /\ \E item \in FileItems : GenerateFileBundleBuildStatementInApp(item)
    /\ phase' = After("compFiles")
    /\ UNCHANGED <<pending, curComp, compsDone, exesDone, packArgs, appLevel, nonGenVars>>

\* for (auto fileSystemObjPtr : componentPtr->bundledDirs)
BundleComponentDir ==
    /\ phase = "compDirs"
    /\ pending = <<>>
    /\ \E item \in DirItems : GenerateDirBundleBuildStatementsInApp(item)
    /\ phase' = After("compDirs")
    /\ UNCHANGED <<curComp, compsDone, exesDone, packArgs, appLevel, nonGenVars>>

\* The staging path of a component library.
LibDestPath(c) ==
    <<"$builddir", WorkingDir, "staging", "read-only", "lib", GetLastNode(Lib(c))>>

\* The staging path of an executable.
ExeDestPath(e) ==
    <<"$builddir", WorkingDir, "staging", "read-only", "bin", e>>

\* if (componentPtr->HasCOrCppCode() || componentPtr->HasJavaCode()): the
\* statement bundling the component library, and its entry in the set.
BundleComponentLib ==
    /\ phase = "compLib"
    /\ IF HasCOrCppCode(curComp) \/ HasJavaCode(curComp)
       THEN /\ script' = Append(script,
                   BuildStmt(LibDestPath(curComp), "BundleFile", Lib(curComp),
                             PermissionsToModeFlags(Permissions_t(TRUE, FALSE, TRUE)),
                             {}))
            /\ allBundledFiles' = InsertBundled(allBundledFiles,
                   FileSystemObject_t(Lib(curComp), LibDestPath(curComp),
                       Permissions_t(TRUE, FALSE, HasCOrCppCode(curComp))))
       ELSE UNCHANGED <<script, allBundledFiles>>
    /\ phase' = "components"
    /\ lastCall' = NoCall
    /\ UNCHANGED <<pending, curComp, compsDone, exesDone, genErr, packArgs,
                   appLevel, nonGenVars>>

\* for (auto& exeMapPtr : appPtr->executables)
BundleExecutable ==
    /\ phase = "exes"
    /\ \E e \in Executables \ exesDone :
          /\ script' = Append(script,
                 BuildStmt(ExeDestPath(e), "BundleFile", <<"$builddir", e>>,
                           PermissionsToModeFlags(Permissions_t(TRUE, FALSE, TRUE)),
                           {}))
          /\ exesDone' = exesDone \cup {e}
    /\ lastCall' = NoCall
    /\ UNCHANGED <<allBundledFiles, phase, pending, curComp, compsDone, genErr,
                   packArgs, appLevel, nonGenVars>>

\* The end of one of the loops: control passes to what follows it.
NextPhase(ph) ==
    CASE ph = "appFiles"    -> "appDirs"
      [] ph = "appDirs"     -> "appBinaries"
      [] ph = "appBinaries" -> "components"
      [] ph = "compFiles"   -> "compDirs"
      [] ph = "compDirs"    -> "compLib"
      [] ph = "components"  -> "exes"
      [] ph = "exes"        -> "bundle"
      [] OTHER              -> ph

EndLoop ==
    /\ phase \in {"appFiles", "appDirs", "appBinaries", "compFiles", "compDirs",
                  "components", "exes"}
    /\ pending = <<>>
    /\ phase' = NextPhase(phase)
    /\ lastCall' = NoCall
    /\ appLevel' = IF phase = "appBinaries" /\ appLevel.followed
                   THEN [appLevel EXCEPT !.objects = allBundledFiles]
                   ELSE appLevel
    /\ UNCHANGED <<script, allBundledFiles, pending, curComp, compsDone, exesDone,
                   genErr, packArgs, nonGenVars>>

InfoPropertiesPath == <<"$builddir", WorkingDir, "staging", "info.properties">>
ConfigFilePath == <<"$builddir", WorkingDir, "staging", "root.cfg">>
UpdatePackPath == <<"<outputDir>", "app.$target.update">>

\* buildParams.binPack and the files of model::ApiFile_t::GetApiFileMap(), in
\* the order of the map, for a run of the generator.
NoPackArgs == [binPack |-> FALSE, apiFiles |-> <<>>]

\* What the app's own loops (files, directories, binaries) put into the
\* bundled set, for the runs that keep track of it.
NotFollowed == [followed |-> FALSE, objects |-> {}]
Followed == [followed |-> TRUE, objects |-> {}]
PackArgs ==
    { [binPack |-> b, apiFiles |-> f] :
        b \in BOOLEAN, f \in { <<>>, << <<"d1", "A.api">>, <<"d1", "B.api">> >> } }

\* Variant: the staged executables are left out of the dependencies.
InfoPropertiesStatement_NoExes ==
    BuildStmt(InfoPropertiesPath, "MakeAppInfoProperties", <<>>, <<>>,
              { o.destPath : o \in allBundledFiles } \cup { ConfigFilePath })

\* build <info.properties> : MakeAppInfoProperties | <staged files>
\*     <staged executables> <config file>
InfoPropertiesStatement ==
    BuildStmt(InfoPropertiesPath, "MakeAppInfoProperties", <<>>, <<>>,
              { o.destPath : o \in allBundledFiles }
                \cup { ExeDestPath(e) : e \in exesDone }
                \cup { ConfigFilePath })

\* Variant: the update pack is built from the staging directory, without
\* naming info.properties.
PackAppStatement_NoInput == BuildStmt(UpdatePackPath, "PackApp", <<>>, <<>>, {})

\* build <outputDir>/<app>.$target.update: PackApp <info.properties>
PackAppStatement == BuildStmt(UpdatePackPath, "PackApp", InfoPropertiesPath, <<>>, {})

InterfacesDir == <<"$builddir", "app", "interfaces">>
BinPackPath == <<"<outputDir>", "app.$target.app">>

\* build <interfacesDir>/<last node of the path>: CopyFile <path>
CopyApiFileStatement(path) ==
    BuildStmt(Combine(InterfacesDir, <<GetLastNode(path)>>), "CopyFile", path,
              <<>>, {})

\* Variant: the copied files are listed after "|", as implicit dependencies.
BinPackAppStatement_Implicit(apiFiles) ==
    BuildStmt(BinPackPath, "BinPackApp", InfoPropertiesPath, <<>>,
              { Combine(InterfacesDir, <<GetLastNode(apiFiles[k])>>) :
                  k \in DOMAIN apiFiles })

\* build <outputDir>/<app>.$target.app: BinPackApp <info.properties>
\*     [|| <copied .api files>]
BinPackAppStatement(apiFiles) ==
    [BuildStmt(BinPackPath, "BinPackApp", InfoPropertiesPath, <<>>, {})
       EXCEPT !.orderOnly =
         IF apiFiles # <<>>
         THEN [written |-> TRUE,
               deps |-> { Combine(InterfacesDir, <<GetLastNode(apiFiles[k])>>) :
                            k \in DOMAIN apiFiles }]
         ELSE NoOrderOnly]

\* if (buildParams.binPack) { ... }
BinPackStatements(binPack, apiFiles) ==
    IF binPack
    THEN [k \in DOMAIN apiFiles |-> CopyApiFileStatement(apiFiles[k])]
           \o <<BinPackAppStatement(apiFiles)>>
    ELSE <<>>

\* GenerateAppBundleBuildStatement(), after the staging statements: the
\* info.properties statement, the update pack statement and, with binPack,
\* the statements of the binary pack.
GenerateAppBundleBuildStatement ==
    /\ phase = "bundle"
    /\ script' = script \o <<InfoPropertiesStatement, PackAppStatement>>
                        \o BinPackStatements(packArgs.binPack, packArgs.apiFiles)
    /\ phase' = "done"
    /\ lastCall' = NoCall
    /\ UNCHANGED <<allBundledFiles, pending, curComp, compsDone, exesDone,
                   genErr, packArgs, appLevel, nonGenVars>>

GenInit ==
    /\ script = <<>>
    /\ allBundledFiles = {}
    /\ phase = "start"
    /\ pending = <<>>
    /\ curComp = "none"
    /\ compsDone = {}
    /\ exesDone = {}
    /\ lastCall = NoCall
    /\ genErr = NoErr
    /\ packArgs = NoPackArgs
    /\ appLevel = NotFollowed

\* The loops over the app's own bundled files and directories.
DirNext ==
    \/ GenerateCommentHeader
    \/ BundleAppFile
    \/ BundleAppDir
    \/ DirEntry
    \/ EndLoop

\* The permissions a bundled item may be given ([r], [w], [x] in any
\* combination), and the directories bundled with them.
AllPermissions == { Permissions_t(r, w, x) : r, w, x \in BOOLEAN }
AnyPermissionDirItems ==
    { FileSystemObject_t(s, d, p) :
        s \in {<<"a">>, <<"b">>}, d \in {<<>>, <<"d">>}, p \in AllPermissions }

\* Generation inside the loop over the first bundled directory of an app,
\* whatever the permissions of the item: opendir() has succeeded and
\* readdir() is about to return the entries in some order.
FlagsInit ==
    /\ script = <<Header>>
    /\ allBundledFiles = {}
    /\ phase = "appDirs"
    /\ \E item \in AnyPermissionDirItems :
          pending \in DirWalks(FileSystemObject_t(item.srcPath,
                                                  StagingDestPath(item),
                                                  item.permissions))
    /\ curComp = "none"
    /\ compsDone = {}
    /\ exesDone = {}
    /\ lastCall = NoCall
    /\ genErr = NoErr
    /\ packArgs = NoPackArgs
    /\ appLevel = NotFollowed

FlagsNext ==
    \/ DirEntry
    \/ EndLoop

\* A run that keeps track of what the app's own loops bundled.
StageInit ==
    /\ script = <<>>
    /\ allBundledFiles = {}
    /\ phase = "start"
    /\ pending = <<>>
    /\ curComp = "none"
    /\ compsDone = {}
    /\ exesDone = {}
    /\ lastCall = NoCall
    /\ genErr = NoErr
    /\ packArgs = NoPackArgs
    /\ appLevel = Followed

\* A run with or without the binary pack, over any registry.
PackInit ==
    /\ script = <<>>
    /\ allBundledFiles = {}
    /\ phase = "start"
    /\ pending = <<>>
    /\ curComp = "none"
    /\ compsDone = {}
    /\ exesDone = {}
    /\ lastCall = NoCall
    /\ genErr = NoErr
    /\ packArgs \in PackArgs
    /\ appLevel = NotFollowed

\* Generation for an app that has bundled files and executables only.
PackNext ==
    \/ GenerateCommentHeader
    \/ BundleAppFile
    \/ BundleExecutable
    \/ EndLoop
    \/ GenerateAppBundleBuildStatement

\* GenerateStagingBundleBuildStatements() up to the end of the loop over the
\* components.
StageNext ==
    \/ GenerateCommentHeader
    \/ BundleAppFile
    \/ BundleAppDir
    \/ BundleAppBinary
    \/ NextComponent
    \/ BundleComponentFile
    \/ BundleComponentDir
    \/ BundleComponentLib
    \/ DirEntry
    \/ EndLoop

GenNext ==
    \/ GenerateCommentHeader
    \/ BundleAppFile
    \/ BundleAppDir
    \/ BundleAppBinary
    \/ NextComponent
    \/ BundleComponentFile
    \/ BundleComponentDir
    \/ BundleComponentLib
    \/ BundleExecutable
    \/ DirEntry
    \/ EndLoop
    \/ GenerateAppBundleBuildStatement

----------------------------------------------------------------------------
\* The system model the binding resolver is given.

\* systemPtr->apps (by name), and each app's externServerInterfaces (by name).
Apps == {"appA", "appB"}
ExternServerInterfaces(app) == IF app = "appB" THEN {"srv"} ELSE {}

Ifaces == 1..NumIfaces

\* Where each client interface instance lives: app, executable, component.
AppOf(i) == IF i <= 2 THEN "appA" ELSE "appB"
ExeOf(i) == IF i <= 2 THEN "exeA" ELSE "exeB"
ComponentOf(i) == IF i % 2 = 1 THEN "c1" ELSE "c2"

\* model::Binding_t; NULL is the null bindingPtr.
Binding_t(cType, cAgent, cIf, sType, sAgent, sIf) ==
    [clientType |-> cType, clientAgentName |-> cAgent, clientIfName |-> cIf,
     serverType |-> sType, serverAgentName |-> sAgent, serverIfName |-> sIf]

NULL == Binding_t("NULL", "", <<>>, "NULL", "", "")

\* The name of an interface instance: exe.component.interface, replaced by the
\* name it is exported under when the interface is marked extern.
InstanceName(i, internalName, externMark) ==
    IF externMark THEN <<"extIf">>
    ELSE <<ExeOf(i), ComponentOf(i), internalName>>

\* A client interface instance: ifPtr->internalName, ifPtr->optional,
\* externMarkPtr != NULL, name; and the binding the definition files declare.
IfaceInputs(i) ==
    { [app |-> AppOf(i), exe |-> ExeOf(i), component |-> ComponentOf(i),
       internalName |-> n, optional |-> o, externMark |-> x,
       name |-> InstanceName(i, n, x), declared |-> NULL] :
        n \in {"le_cfg", "le_wdog", "foo"}, o \in BOOLEAN, x \in BOOLEAN }
    \cup
    { [app |-> AppOf(i), exe |-> ExeOf(i), component |-> ComponentOf(i),
       internalName |-> n, optional |-> FALSE, externMark |-> FALSE,
       name |-> InstanceName(i, n, FALSE),
       declared |-> Binding_t("INTERNAL", AppOf(i), InstanceName(i, n, FALSE),
                              srv[1], srv[2], srv[3])] :
        n \in {"le_cfg", "foo"},
        srv \in { <<"INTERNAL", "exeA", "srv">>,
                  <<"EXTERNAL_USER", "user", "srv">>,
                  <<"EXTERNAL_APP", "appB", "srv">>,
                  <<"EXTERNAL_APP", "appB", "nosrv">>,
                  <<"EXTERNAL_APP", "ghost", "srv">> } }

----------------------------------------------------------------------------
\* Exceptions of the resolver: the kind of message, the dotted path it quotes
\* first, the dotted path it quotes as "aka", and the other names it quotes.

BindError(kind, path, aka, names) ==
    [kind |-> kind, path |-> path, aka |-> aka, names |-> names]

NoBindErr == BindError("none", <<>>, <<>>, <<>>)

\* Variant: the server agent is taken from the client side.
BindToRootService_ClientAsServer(appName, ifInstance, serviceName) ==
    Binding_t("INTERNAL", appName, ifInstance.name,
              "EXTERNAL_USER", appName, serviceName)

\* BindToRootService(appPtr, ifInstancePtr, serviceName): the binding attached.
BindToRootService(appName, ifInstance, serviceName) ==
    Binding_t("INTERNAL", appName, ifInstance.name,
              "EXTERNAL_USER", "root", serviceName)

\* Variant: only the server app is looked up, not its interface.
CheckBindingTarget_AppOnly(binding) ==
    IF binding.serverType = "EXTERNAL_APP"
    THEN IF binding.serverAgentName \notin Apps
         THEN BindError("noServerApp", <<>>, <<>>, <<binding.serverAgentName>>)
         ELSE NoBindErr
    ELSE NoBindErr

\* CheckBindingTarget(systemPtr, bindingPtr): the exception thrown, if any.
CheckBindingTarget(binding) ==
    IF binding.serverType = "EXTERNAL_APP"
    THEN IF binding.serverAgentName \notin Apps
         THEN BindError("noServerApp", <<>>, <<>>, <<binding.serverAgentName>>)
         ELSE IF binding.serverIfName
                    \notin ExternServerInterfaces(binding.serverAgentName)
         THEN BindError("noServerIf", <<>>, <<>>,
                        <<binding.serverIfName, binding.serverAgentName>>)
         ELSE NoBindErr
    ELSE NoBindErr

\* "Client interface 'app.name' (aka 'app.exe.component.interface') is not
\* bound to anything."
UnboundExternError(ifInstance) ==
    BindError("unboundExtern",
              <<ifInstance.app>> \o ifInstance.name,
              <<ifInstance.app, ifInstance.exe, ifInstance.component,
                ifInstance.internalName>>,
              <<>>)

\* Variant: the message quotes the interface name without the app name.
UnboundError_NoAppName(ifInstance) ==
    BindError("unbound", ifInstance.name, <<>>, <<>>)

\* "Client interface 'app.name' is not bound to anything."
UnboundError(ifInstance) ==
    BindError("unbound", <<ifInstance.app>> \o ifInstance.name, <<>>, <<>>)

\* "Client interface 'interface' of component 'component' in executable 'exe'
\* is unsatisfied. ..."
UnsatisfiedError(ifInstance) ==
    BindError("unsatisfied", <<>>, <<>>,
              <<ifInstance.internalName, ifInstance.component, ifInstance.exe>>)

\* Variant: an le_cfg interface is bound to the root service whether or not
\* it has a binding already.
BoundStep_Rebind(ifInstance, binding) ==
    IF ~ifInstance.optional /\ ifInstance.internalName = "le_cfg"
    THEN [binding |-> BindToRootService(ifInstance.app, ifInstance, "le_cfg"),
          err |-> NoBindErr]
    ELSE IF binding = NULL
    THEN IF ~ifInstance.optional
         THEN IF ifInstance.internalName = "le_wdog"
              THEN [binding |-> BindToRootService(ifInstance.app, ifInstance, "le_wdog"),
                    err |-> NoBindErr]
              ELSE IF ifInstance.externMark
              THEN [binding |-> binding, err |-> UnboundExternError(ifInstance)]
              ELSE [binding |-> binding, err |-> UnboundError(ifInstance)]
         ELSE [binding |-> binding, err |-> NoBindErr]
    ELSE [binding |-> binding, err |-> CheckBindingTarget(binding)]

\* Variant: an extern mark is accepted in place of a binding.
BoundStep_ExternSatisfies(ifInstance, binding) ==
    IF binding = NULL /\ ~ifInstance.externMark
    THEN IF ~ifInstance.optional
         THEN IF ifInstance.internalName = "le_cfg"
              THEN [binding |-> BindToRootService(ifInstance.app, ifInstance, "le_cfg"),
                    err |-> NoBindErr]
              ELSE IF ifInstance.internalName = "le_wdog"
              THEN [binding |-> BindToRootService(ifInstance.app, ifInstance, "le_wdog"),
                    err |-> NoBindErr]
              ELSE [binding |-> binding, err |-> UnboundError(ifInstance)]
         ELSE [binding |-> binding, err |-> NoBindErr]
    ELSE IF binding = NULL THEN [binding |-> binding, err |-> NoBindErr]
    ELSE [binding |-> binding, err |-> CheckBindingTarget(binding)]

\* The body of the innermost loop of EnsureClientInterfacesBound for one
\* interface instance: its binding afterwards, and the exception thrown.
BoundStep(ifInstance, binding) ==
    IF binding = NULL
    THEN IF ~ifInstance.optional
         THEN IF ifInstance.internalName = "le_cfg"
              THEN [binding |-> BindToRootService(ifInstance.app, ifInstance, "le_cfg"),
                    err |-> NoBindErr]
              ELSE IF ifInstance.internalName = "le_wdog"
              THEN [binding |-> BindToRootService(ifInstance.app, ifInstance, "le_wdog"),
                    err |-> NoBindErr]
              ELSE IF ifInstance.externMark
              THEN [binding |-> binding, err |-> UnboundExternError(ifInstance)]
              ELSE [binding |-> binding, err |-> UnboundError(ifInstance)]
         ELSE [binding |-> binding, err |-> NoBindErr]
    ELSE [binding |-> binding, err |-> CheckBindingTarget(binding)]

\* Variant: an unsatisfied interface is passed over instead of reported.
SatisfiedStep_NoThrow(ifInstance, binding) ==
    IF binding = NULL /\ ~ifInstance.externMark
    THEN IF ~ifInstance.optional
         THEN IF ifInstance.internalName = "le_cfg"
              THEN [binding |-> BindToRootService(ifInstance.app, ifInstance, "le_cfg"),
                    err |-> NoBindErr]
              ELSE IF ifInstance.internalName = "le_wdog"
              THEN [binding |-> BindToRootService(ifInstance.app, ifInstance, "le_wdog"),
                    err |-> NoBindErr]
              ELSE [binding |-> binding, err |-> NoBindErr]
         ELSE [binding |-> binding, err |-> NoBindErr]
    ELSE [binding |-> binding, err |-> NoBindErr]

\* The body of the innermost loop of EnsureClientInterfacesSatisfied.
SatisfiedStep(ifInstance, binding) ==
    IF binding = NULL /\ ~ifInstance.externMark
    THEN IF ~ifInstance.optional
         THEN IF ifInstance.internalName = "le_cfg"
              THEN [binding |-> BindToRootService(ifInstance.app, ifInstance, "le_cfg"),
                    err |-> NoBindErr]
              ELSE IF ifInstance.internalName = "le_wdog"
              THEN [binding |-> BindToRootService(ifInstance.app, ifInstance, "le_wdog"),
                    err |-> NoBindErr]
              ELSE [binding |-> binding, err |-> UnsatisfiedError(ifInstance)]
         ELSE [binding |-> binding, err |-> NoBindErr]
    ELSE [binding |-> binding, err |-> NoBindErr]

RECURSIVE RunLoops_StopAtOptional(_, _, _, _)

\* Variant: an unbound optional interface ends the loops (a return where the
\* code falls through to the next iteration).
RunLoops_StopAtOptional(fn, order, k, st) ==
    IF k > Len(order) \/ st.err # NoBindErr THEN st
    ELSE LET i == order[k]
             r == IF fn = "EnsureClientInterfacesBound"
                  THEN BoundStep(ifs[i], st.bindingPtr[i])
                  ELSE SatisfiedStep(ifs[i], st.bindingPtr[i])
             next == [bindingPtr |-> [st.bindingPtr EXCEPT ![i] = r.binding],
                      err |-> r.err,
                      visited |-> Append(st.visited, i)]
         IN  IF st.bindingPtr[i] = NULL /\ ifs[i].optional THEN next
             ELSE RunLoops_StopAtOptional(fn, order, k + 1, next)

RECURSIVE RunLoops(_, _, _, _)

\* The nested loops of a resolver function over the interface instances in
\* the order the containers yield them, up to the first exception.
\* st = [bindingPtr, err, visited].
RunLoops(fn, order, k, st) ==
    IF k > Len(order) \/ st.err # NoBindErr THEN st
    ELSE LET i == order[k]
             r == IF fn = "EnsureClientInterfacesBound"
                  THEN BoundStep(ifs[i], st.bindingPtr[i])
                  ELSE SatisfiedStep(ifs[i], st.bindingPtr[i])
         IN  RunLoops(fn, order, k + 1,
                      [bindingPtr |-> [st.bindingPtr EXCEPT ![i] = r.binding],
                       err |-> r.err,
                       visited |-> Append(st.visited, i)])

\* The orders nested loops (apps, their executables, their component
\* instances, their client interfaces) can visit the instances in S:
\* instances of one app, one executable, one component instance are adjacent.
Adjacent(o, key) ==
    \A a, b, c \in DOMAIN o : (a < b /\ b < c /\ key[o[a]] = key[o[c]])
                                 => key[o[b]] = key[o[a]]
VisitOrders(S) ==
    { o \in Orders(S) :
        /\ Adjacent(o, [i \in S |-> AppOf(i)])
        /\ Adjacent(o, [i \in S |-> <<AppOf(i), ExeOf(i)>>])
        /\ Adjacent(o, [i \in S |-> <<AppOf(i), ExeOf(i), ComponentOf(i)>>]) }

StartState == [bindingPtr |-> bindingPtr, err |-> NoBindErr, visited |-> <<>>]

\* EnsureClientInterfacesBound(systemPtr)
EnsureClientInterfacesBound ==
    /\ bindErr = NoBindErr
    /\ \E o \in VisitOrders(Ifaces) :
          LET r == RunLoops("EnsureClientInterfacesBound", o, 1, StartState)
          IN  /\ bindingPtr' = r.bindingPtr
              /\ bindErr' = r.err
              /\ visited' = r.visited
    /\ pass' = [fn |-> "EnsureClientInterfacesBound", app |-> ""]
    /\ before' = bindingPtr
    /\ UNCHANGED <<ifs, nonBindVars>>

\* EnsureClientInterfacesSatisfied(appPtr)
EnsureClientInterfacesSatisfied ==
    /\ bindErr = NoBindErr
    /\ \E app \in Apps :
          /\ \E o \in VisitOrders({ i \in Ifaces : AppOf(i) = app }) :
                LET r == RunLoops("EnsureClientInterfacesSatisfied", o, 1, StartState)
                IN  /\ bindingPtr' = r.bindingPtr
                    /\ bindErr' = r.err
                    /\ visited' = r.visited
          /\ pass' = [fn |-> "EnsureClientInterfacesSatisfied", app |-> app]
    /\ before' = bindingPtr
    /\ UNCHANGED <<ifs, nonBindVars>>

\* The system model after modelling: every instance with its declared binding.
BindInit ==
    /\ ifs \in { f \in [Ifaces -> UNION { IfaceInputs(i) : i \in Ifaces }] :
                   \A i \in Ifaces : f[i] \in IfaceInputs(i) }
    /\ bindingPtr = [i \in Ifaces |-> ifs[i].declared]
    /\ pass = [fn |-> "none", app |-> ""]
    /\ before = bindingPtr
    /\ visited = <<>>
    /\ bindErr = NoBindErr

BindNext ==
    \/ EnsureClientInterfacesBound
    \/ EnsureClientInterfacesSatisfied

\* The generator at rest, for the specifications of the other parts.
GenIdle ==
    /\ script = <<>>
    /\ allBundledFiles = {}
    /\ phase = "idle"
    /\ pending = <<>>
    /\ curComp = "none"
    /\ compsDone = {}
    /\ exesDone = {}
    /\ lastCall = NoCall
    /\ genErr = NoErr
    /\ packArgs = NoPackArgs
    /\ appLevel = NotFollowed

\* The resolver at rest, for the specifications of the other parts.
BindIdle ==
    /\ ifs = <<>>
    /\ bindingPtr = <<>>
    /\ pass = [fn |-> "none", app |-> ""]
    /\ before = <<>>
    /\ visited = <<>>
    /\ bindErr = NoBindErr

----------------------------------------------------------------------------
\* The .api file registry: modeller::GetApiFilePtr().

\* The .api files on disk, by path (directory, file name).
ApiFiles == { <<"d1", "A.api">>, <<"d1", "B.api">>,
              <<"d2", "B.api">>, <<"d2", "C.api">> }

\* The USETYPES lists each file may hold; a directive names a file with or
\* without the .api suffix, and "D" names a file that is nowhere.
UseTypesOf(path) ==
    CASE path = <<"d1", "A.api">> ->
             { <<>>, <<"A">>, <<"B.api">>, <<"B.api", "C">>, <<"C", "A">>, <<"D">> }
      [] path = <<"d1", "B.api">> -> { <<>>, <<"A">>, <<"C">>, <<"D">> }
      [] path = <<"d2", "B.api">> -> { <<>>, <<"C">> }
      [] OTHER -> { <<>>, <<"B">>, <<"A.api">> }

\* The search lists a caller may supply.
SearchLists == { <<>>, << <<"d2">> >> }

\* path::HasSuffix(dependency, ".api")
HasSuffix(dependency) == dependency \in {"A.api", "B.api", "C.api", "D.api"}

\* dependency += ".api"
AppendSuffix(dependency) ==
    CASE dependency = "A" -> "A.api"
      [] dependency = "B" -> "B.api"
      [] dependency = "C" -> "C.api"
      [] dependency = "D" -> "D.api"
      [] OTHER -> "?"

\* path::GetContainingDir
GetContainingDir(path) == SubSeq(path, 1, Len(path) - 1)

RECURSIVE FindFile(_, _)

\* file::FindFile(name, searchPaths): the file in the first directory of the
\* list that has it, or the empty path.
FindFile(name, searchPaths) ==
    IF searchPaths = <<>> THEN <<>>
    ELSE IF Combine(Head(searchPaths), <<name>>) \in ApiFiles
    THEN Combine(Head(searchPaths), <<name>>)
    ELSE FindFile(name, Tail(searchPaths))

\* The null ApiFile_t pointer; pointers are indices into apiObjs.
NoApiFile == 0

\* model::ApiFile_t::GetApiFile(path)
GetApiFile(map, path) == IF path \in DOMAIN map THEN map[path] ELSE NoApiFile

\* model::ApiFile_t::CreateApiFile(path): the new object, and the registry
\* with it.
ApiFile_t(path) == [path |-> path, includes |-> <<>>, isIncluded |-> FALSE]
CreateApiFile(map, path, ptr) ==
    [p \in DOMAIN map \cup {path} |-> IF p = path THEN ptr ELSE map[p]]

\* The token the outermost caller passes for reporting errors: the token of
\* the definition file that names the requested .api file.
TokenFor(apiFile) == [file |-> "def", text |-> apiFile]

\* "Can't find dependent .api file: 'dependency'.", thrown through the token.
ApiError(kind, token, dependency) ==
    [kind |-> kind, token |-> token, dependency |-> dependency]
NoApiErr == ApiError("none", TokenFor(<<>>), "")
CantFindError(token, dependency) == ApiError("cantFind", token, dependency)

\* The dependency name the handler looks for.
DependencyName(dependency) ==
    IF ~HasSuffix(dependency) THEN AppendSuffix(dependency) ELSE dependency

\* The handler's search for a dependency of the file at apiFilePath: the
\* path found, or the empty path.
IncludedFilePath(apiFilePath, dependency, searchList) ==
    LET dir == GetContainingDir(apiFilePath)
        includedFilePath == FindFile(DependencyName(dependency), <<dir>>)
    IN  IF includedFilePath = <<>>
        THEN FindFile(DependencyName(dependency), searchList)
        ELSE includedFilePath

\* Variant: a file is created and parsed whether or not the registry has it.
MustCreate_Always(apiFilePtr) == TRUE

\* if (apiFilePtr == NULL)
MustCreate(apiFilePtr) == apiFilePtr = NoApiFile

\* Variant: a file whose own parse is not finished is not added.
AddInclude_SkipUnfinished(objs, includer, included) ==
    IF \E k \in DOMAIN callStack : callStack[k].ptr = included
    THEN [objs EXCEPT ![included].isIncluded = TRUE]
    ELSE [objs EXCEPT ![included].isIncluded = TRUE,
                      ![includer].includes = Append(@, included)]

\* The end of the handler: the included file is marked "included" and added
\* to the includes of the including file.
AddInclude(objs, includer, included) ==
    [objs EXCEPT ![included].isIncluded = TRUE,
                 ![includer].includes = Append(@, included)]

\* The innermost call in progress, and the calls around it.
Top == callStack[Len(callStack)]
Callers == SubSeq(callStack, 1, Len(callStack) - 1)

\* A call that finds no registry entry: the entry is created, then
\* GetDependencies() starts reading the file.
EnterFile(path, outer) ==
    /\ Len(apiObjs) < MaxObjects
    /\ Len(outer) < MaxDepth
    /\ apiObjs' = Append(apiObjs, ApiFile_t(path))
    /\ apiFileMap' = CreateApiFile(apiFileMap, path, Len(apiObjs) + 1)
    /\ parsed' = [parsed EXCEPT ![path] = @ + 1]
    /\ callStack' = Append(outer, [ptr |-> Len(apiObjs) + 1, todo |-> usetypes[path]])

\* GetApiFilePtr(apiFile, searchList, tokenPtr), called by a modeller.
GetApiFilePtr ==
    /\ callStack = <<>>
    /\ apiErr = NoApiErr
    /\ \E apiFile \in ApiFiles, searchList \in SearchLists :
          LET apiFilePtr == GetApiFile(apiFileMap, apiFile)
          IN  /\ requested' = requested \cup {apiFile}
              /\ IF MustCreate(apiFilePtr)
                 THEN /\ EnterFile(apiFile, <<>>)
                      /\ apiCall' = [apiFile |-> apiFile, searchList |-> searchList,
                                     created |-> TRUE, result |-> NoApiFile]
                      /\ UNCHANGED returned
                 ELSE /\ apiCall' = [apiFile |-> apiFile, searchList |-> searchList,
                                     created |-> FALSE, result |-> apiFilePtr]
                      /\ returned' = [returned EXCEPT ![apiFile] = @ \cup {apiFilePtr}]
                      /\ UNCHANGED <<apiObjs, apiFileMap, parsed, callStack>>
    /\ UNCHANGED <<usetypes, apiLast, apiErr, nonApiVars>>

\* The handler GetDependencies() calls for the next USETYPES of the file
\* being read, up to the return of an inner call that finds the file in the
\* registry, or to the start of the inner call's GetDependencies().
Handler ==
    /\ callStack # <<>>
    /\ Top.todo # <<>>
    /\ apiErr = NoApiErr
    /\ LET apiFilePath == apiObjs[Top.ptr].path
           dependency == Head(Top.todo)
           includedFilePath ==
               IncludedFilePath(apiFilePath, dependency, apiCall.searchList)
           includedFilePtr == GetApiFile(apiFileMap, includedFilePath)
       IN  /\ apiLast' = [apiFile |-> apiFilePath, dependency |-> dependency,
                          found |-> includedFilePath]
           /\ IF includedFilePath = <<>>
              THEN /\ apiErr' = CantFindError(TokenFor(apiCall.apiFile),
                                              DependencyName(dependency))
                   /\ callStack' = <<>>
                   /\ UNCHANGED <<apiObjs, apiFileMap, parsed, returned>>
              ELSE IF MustCreate(includedFilePtr)
              THEN /\ EnterFile(includedFilePath, callStack)
                   /\ UNCHANGED <<apiErr, returned>>
              ELSE /\ apiObjs' = AddInclude(apiObjs, Top.ptr, includedFilePtr)
                   /\ callStack' = Append(Callers, [Top EXCEPT !.todo = Tail(@)])
                   /\ returned' = [returned EXCEPT ![includedFilePath] =
                                                      @ \cup {includedFilePtr}]
                   /\ UNCHANGED <<apiErr, apiFileMap, parsed>>
    /\ UNCHANGED <<usetypes, apiCall, requested, nonApiVars>>

\* GetDependencies() has read the whole file: GetApiFilePtr() returns, to
\* the handler that called it (which finishes) or to the modeller.
Return ==
    /\ callStack # <<>>
    /\ Top.todo = <<>>
    /\ apiErr = NoApiErr
    /\ returned' = [returned EXCEPT ![apiObjs[Top.ptr].path] = @ \cup {Top.ptr}]
    /\ IF Callers = <<>>
       THEN /\ callStack' = <<>>
            /\ apiCall' = [apiCall EXCEPT !.result = Top.ptr]
            /\ UNCHANGED apiObjs
       ELSE LET caller == Callers[Len(Callers)]
            IN  /\ apiObjs' = AddInclude(apiObjs, caller.ptr, Top.ptr)
                /\ callStack' = Append(SubSeq(Callers, 1, Len(Callers) - 1),
                                       [caller EXCEPT !.todo = Tail(@)])
                /\ UNCHANGED apiCall
    /\ UNCHANGED <<usetypes, apiFileMap, parsed, requested, apiLast, apiErr,
                   nonApiVars>>

NoHandlerCall == [apiFile |-> <<>>, dependency |-> "", found |-> <<>>]
NoApiCall == [apiFile |-> <<>>, searchList |-> <<>>, created |-> FALSE,
              result |-> NoApiFile]

\* The files on disk and an empty registry.
ApiInit ==
    /\ usetypes \in { f \in [ApiFiles -> UNION { UseTypesOf(p) : p \in ApiFiles }] :
                        \A p \in ApiFiles : f[p] \in UseTypesOf(p) }
    /\ apiFileMap = <<>>
    /\ apiObjs = <<>>
    /\ parsed = [p \in ApiFiles |-> 0]
    /\ callStack = <<>>
    /\ apiCall = NoApiCall
    /\ requested = {}
    /\ returned = [p \in ApiFiles |-> {}]
    /\ apiLast = NoHandlerCall
    /\ apiErr = NoApiErr

ApiNext ==
    \/ GetApiFilePtr
    \/ Handler
    \/ Return

\* The registry before any .api file is asked for.
ApiIdle ==
    /\ usetypes = <<>>
    /\ apiFileMap = <<>>
    /\ apiObjs = <<>>
    /\ parsed = <<>>
    /\ callStack = <<>>
    /\ apiCall = NoApiCall
    /\ requested = {}
    /\ returned = <<>>
    /\ apiLast = NoHandlerCall
    /\ apiErr = NoApiErr

----------------------------------------------------------------------------
\* The file-system items of a definition file: GetBundledItem(),
\* GetRequiredFileOrDir(), GetRequiredDevice().

\* The text of a path token: quoted or not, and its nodes, of which one may
\* be the name of an environment variable.
PathText(quoted, nodes) == [quoted |-> quoted, nodes |-> nodes]

\* The value of a node once environment variables are substituted.
EnvValue(node) ==
    CASE node = "$DIR"  -> <<"lib", "">>
      [] node = "$NAME" -> <<"y">>
      [] OTHER          -> <<node>>

RECURSIVE SubstituteNodes(_)
SubstituteNodes(nodes) ==
    IF nodes = <<>> THEN <<>>
    ELSE EnvValue(Head(nodes)) \o SubstituteNodes(Tail(nodes))

\* envVars::DoSubstitution(text)
DoSubstitution(text) == [text EXCEPT !.nodes = SubstituteNodes(@)]

\* path::Unquote(text): the path without the quotes around it.
Unquote(text) == text.nodes

\* path.back() == '/'
EndsInSlash(path) == Len(path) >= 2 /\ path[Len(path)] = ""

\* path += node, for a path that ends in '/'.
AppendNode(path, node) == [path EXCEPT ![Len(path)] = node]

\* The FILE_PERMISSIONS tokens: the letters between '[' and ']'.
NoPermissions == <<"-">>
PermissionTexts ==
    { <<>>, <<"r">>, <<"r", "w">>, <<"r", "x">>, <<"w">>, <<"w", "x">> }

\* Variant: the letter 'x' is not looked at.
GetPermissions_NoExecutable(permissionsText) ==
    Permissions_t(\E i \in DOMAIN permissionsText : permissionsText[i] = "r",
                  \E i \in DOMAIN permissionsText : permissionsText[i] = "w",
                  FALSE)

\* GetPermissions(permissions, tokenPtr)
GetPermissions(permissionsText) ==
    Permissions_t(\E i \in DOMAIN permissionsText : permissionsText[i] = "r",
                  \E i \in DOMAIN permissionsText : permissionsText[i] = "w",
                  \E i \in DOMAIN permissionsText : permissionsText[i] = "x")

\* The items a definition file may hold: an optional permissions token, the
\* source path and the destination path.
Items(perms) ==
    LET srcTexts ==
            { PathText(FALSE, <<"a", "x">>), PathText(TRUE, <<"a", "x">>),
              PathText(FALSE, <<"a", "d", "">>), PathText(FALSE, <<"$DIR">>),
              PathText(FALSE, <<"a", "$NAME">>) }
        destTexts ==
            { PathText(FALSE, <<"bin", "x">>), PathText(FALSE, <<"bin", "">>),
              PathText(TRUE, <<"bin", "">>), PathText(FALSE, <<"$DIR">>) }
    IN  { [perm |-> p, src |-> s, dest |-> d] :
            p \in perms, s \in srcTexts, d \in destTexts }

\* Exceptions of the modeller: the message and the path it is about.
ModError(kind, path) == [kind |-> kind, path |-> path]
NoModErr == ModError("none", <<>>)

\* Variant: the destination is taken as written.
GetPermissionItem_NoCompletion(item) ==
    FileSystemObject_t(Unquote(DoSubstitution(item.src)),
                       Unquote(DoSubstitution(item.dest)),
                       IF item.perm # NoPermissions
                       THEN GetPermissions(item.perm) ELSE PermR)

\* GetPermissionItem(itemPtr): the object created.
GetPermissionItem(item) ==
    LET permissions == IF item.perm # NoPermissions
                       THEN GetPermissions(item.perm)
                       ELSE PermR
        srcPath == Unquote(DoSubstitution(item.src))
        destPath == Unquote(DoSubstitution(item.dest))
    IN  FileSystemObject_t(srcPath,
                           IF EndsInSlash(destPath)
                           THEN AppendNode(destPath, GetLastNode(srcPath))
                           ELSE destPath,
                           permissions)

\* Variant: the source path is checked as written in the token.
RequiredFileOrDir_CheckToken(item) ==
    LET srcPath == Unquote(DoSubstitution(item.src))
        destPath == Unquote(DoSubstitution(item.dest))
    IN  IF EndsInSlash(item.src.nodes)
        THEN [err |-> ModError("srcEndsInSlash", srcPath), obj |-> NoObject]
        ELSE [err |-> NoModErr,
              obj |-> FileSystemObject_t(srcPath,
                          IF EndsInSlash(destPath)
                          THEN AppendNode(destPath, GetLastNode(srcPath))
                          ELSE destPath,
                          Permissions_t(FALSE, FALSE, FALSE))]

\* The body of GetRequiredFileOrDir(itemPtr): the exception thrown, or the
\* object created.
RequiredFileOrDir(item) ==
    LET srcPath == Unquote(DoSubstitution(item.src))
        destPath == Unquote(DoSubstitution(item.dest))
    IN  IF EndsInSlash(srcPath)
        THEN [err |-> ModError("srcEndsInSlash", srcPath), obj |-> NoObject]
        ELSE [err |-> NoModErr,
              obj |-> FileSystemObject_t(srcPath,
                          IF EndsInSlash(destPath)
                          THEN AppendNode(destPath, GetLastNode(srcPath))
                          ELSE destPath,
                          Permissions_t(FALSE, FALSE, FALSE))]

\* The modeller is still at work on the definition file.
Modelling ==
    /\ phase = "idle"
    /\ modErr = NoModErr
    /\ numObjs < MaxItems

ModCall(fn, item) == [fn |-> fn, item |-> item, objsBefore |-> numObjs]

\* GetBundledItem(itemPtr)
GetBundledItem ==
    /\ Modelling
    /\ \E item \in Items(PermissionTexts \cup {NoPermissions}) :
          /\ modObj' = GetPermissionItem(item)
          /\ modCall' = ModCall("GetBundledItem", item)
    /\ numObjs' = numObjs + 1
    /\ UNCHANGED <<modErr, genVars, bindVars, apiVars, parseVars, secVars>>

\* GetRequiredFileOrDir(itemPtr)
GetRequiredFileOrDir ==
    /\ Modelling
    /\ \E item \in Items({NoPermissions}) :
          /\ modErr' = RequiredFileOrDir(item).err
          /\ modObj' = RequiredFileOrDir(item).obj
          /\ numObjs' = IF RequiredFileOrDir(item).err = NoModErr
                        THEN numObjs + 1 ELSE numObjs
          /\ modCall' = ModCall("GetRequiredFileOrDir", item)
    /\ UNCHANGED <<genVars, bindVars, apiVars, parseVars, secVars>>

\* GetRequiredDevice(itemPtr)
GetRequiredDevice ==
    /\ Modelling
    /\ \E item \in Items(PermissionTexts \cup {NoPermissions}) :
          LET permPtr == GetPermissionItem(item)
          IN  /\ IF permPtr.permissions.executable
                 THEN /\ modErr' = ModError("deviceExecutable", permPtr.srcPath)
                      /\ modObj' = NoObject
                 ELSE /\ modErr' = NoModErr
                      /\ modObj' = permPtr
              /\ modCall' = ModCall("GetRequiredDevice", item)
    /\ numObjs' = numObjs + 1
    /\ UNCHANGED <<genVars, bindVars, apiVars, parseVars, secVars>>

\* The model is complete: generation of the build script begins.
ModelDone ==
    /\ phase = "idle"
    /\ modErr = NoModErr
    /\ phase' = "start"
    /\ UNCHANGED <<script, allBundledFiles, pending, curComp, compsDone, exesDone,
                   lastCall, genErr, packArgs, appLevel, nonGenVars>>

\* The modeller before any item, and at rest.
ModInit ==
    /\ numObjs = 0
    /\ modObj = NoObject
    /\ modCall = [fn |-> "none", item |-> <<>>, objsBefore |-> 0]
    /\ modErr = NoModErr

ModNext ==
    \/ GetBundledItem
    \/ GetRequiredFileOrDir
    \/ GetRequiredDevice
    \/ ModelDone
    \/ GenerateCommentHeader

----------------------------------------------------------------------------
\* The parser of definition files (parser.cpp) over the lexer's interface.
\*
\* The text of a token is the sequence of its characters.  The lexer is
\* followed at the level of lexemes: the input is a sequence of lexemes, each
\* of one token type, each one column wide; a whitespace lexeme that holds a
\* newline ends the line.

Lexeme(type, text) == [type |-> type, text |-> text]

\* parseTree::Token_t: the lexeme with the line and column it was pulled at.
Token_t(lexeme, line, column) ==
    [type |-> lexeme.type, text |-> lexeme.text, line |-> line, column |-> column]

NoToken == Token_t(Lexeme("NONE", <<>>), 0, 0)

\* Lexer_t(fileObjPtr): the lexer at the start of the file.
Lexer_t(file) == [input |-> file, line |-> 1, column |-> 0]

\* lexer.IsMatch(type)
IsMatch(lexer_, type) ==
    IF lexer_.input = <<>> THEN type = "END_OF_FILE"
    ELSE Head(lexer_.input).type = type

Newline == <<"\n">>

\* The lexer once the upcoming lexeme is pulled.
Advance(lexer_) ==
    [input |-> Tail(lexer_.input),
     line |-> IF Head(lexer_.input).text = Newline
              THEN lexer_.line + 1 ELSE lexer_.line,
     column |-> IF Head(lexer_.input).text = Newline
                THEN 0 ELSE lexer_.column + 1]

\* The token lexer.Pull(type) returns when the upcoming lexeme matches.
Pulled(lexer_) == Token_t(Head(lexer_.input), lexer_.line, lexer_.column)

\* Exceptions of the parser: the position the lexer is at, the message, and
\* the text, line and column the message quotes.
ParseError(lexer_, kind, text, line, column) ==
    [kind |-> kind, atLine |-> lexer_.line, atColumn |-> lexer_.column,
     text |-> text, line |-> line, column |-> column]

NoParseErr == [kind |-> "none", atLine |-> 0, atColumn |-> 0,
               text |-> <<>>, line |-> 0, column |-> 0]

\* The exception of lexer.Pull(type) when the upcoming text does not match.
PullError(lexer_, type) ==
    ParseError(lexer_, "unexpected", <<type>>, lexer_.line, lexer_.column)

\* SkipWhitespaceAndComments(lexer): the loop goes on from the lexer the pull
\* leaves, which is worked out once.
RECURSIVE SkipWhitespaceAndComments(_)
SkipWhitespaceAndComments(lexer_) ==
    IF IsMatch(lexer_, "WHITESPACE") \/ IsMatch(lexer_, "COMMENT")
    THEN CHOOSE skipped \in { SkipWhitespaceAndComments(pulled) :
                                pulled \in {Advance(lexer_)} } : TRUE
    ELSE lexer_

\* What a parser function leaves behind: the exception it threw, the lexer,
\* and the parse tree object it returned or has still open.
Outcome(err, lexer_, obj) == [err |-> err, lexer |-> lexer_, obj |-> obj]

\* A parse tree object: its name token, its contents, its last token.
Content_t(kind, nameToken, contents, lastToken) ==
    [kind |-> kind, name |-> nameToken, contents |-> contents, lastToken |-> lastToken]

NoContent == Content_t("none", NoToken, <<>>, NoToken)

\* ParseSimpleSection(lexer, sectionNameTokenPtr, tokenType)
ParseSimpleSection(lexer_, sectionNameToken, tokenType) ==
    LET atColon == SkipWhitespaceAndComments(lexer_)
        atContent == SkipWhitespaceAndComments(Advance(atColon))
    IN  IF ~IsMatch(atColon, "COLON")
        THEN Outcome(PullError(atColon, "COLON"), atColon, NoContent)
        ELSE IF ~IsMatch(atContent, tokenType)
        THEN Outcome(PullError(atContent, tokenType), atContent, NoContent)
        ELSE Outcome(NoParseErr, Advance(atContent),
                     Content_t("SimpleSection", sectionNameToken,
                               <<Pulled(atContent)>>, Pulled(atContent)))

\* The start of ParseTokenListSection(), ParseComplexSection() and
\* ParseTokenListNamedItem(), up to the loop: the separator and the opening
\* delimiter, with whitespace and comments skipped around them.
OpenList(lexer_, kind, nameToken, separator, opening) ==
    LET atSeparator == SkipWhitespaceAndComments(lexer_)
        atOpening == SkipWhitespaceAndComments(Advance(atSeparator))
    IN  IF ~IsMatch(atSeparator, separator)
        THEN Outcome(PullError(atSeparator, separator), atSeparator, NoContent)
        ELSE IF ~IsMatch(atOpening, opening)
        THEN Outcome(PullError(atOpening, opening), atOpening, NoContent)
        ELSE Outcome(NoParseErr, SkipWhitespaceAndComments(Advance(atOpening)),
                     Content_t(kind, nameToken, <<>>, NoToken))

\* The characters of a text: content[i] of a std::string, which is '\0' at
\* the end of the text, and isdigit().
NUL == "\\0"
CharAt(content, i) == IF i < Len(content) THEN content[i + 1] ELSE NUL
DigitChars == <<"0", "1", "2", "3", "4", "5", "6", "7", "8", "9">>
IsDigit(c) == \E d \in DOMAIN DigitChars : DigitChars[d] = c
DigitValue(c) == (CHOOSE d \in DOMAIN DigitChars : DigitChars[d] = c) - 1

\* numberStream >> number, for a text of digits.
RECURSIVE ReadUnsigned(_)
ReadUnsigned(numberString) ==
    IF numberString = <<>> THEN 0
    ELSE 10 * ReadUnsigned(SubSeq(numberString, 1, Len(numberString) - 1))
         + DigitValue(numberString[Len(numberString)])

\* Variant: any one or two digits after "rt" are taken.
PriorityLevelOk_AnyLevel(number) == TRUE

\* The range check of ParsePriority() on the number after "rt".
PriorityLevelOk(number) == ~((number < 1) \/ (number > 32))

\* ParsePriority(lexer, sectionNameTokenPtr)
ParsePriority(lexer_, sectionNameToken) ==
    LET section == ParseSimpleSection(lexer_, sectionNameToken, "NAME")
        content == section.obj.lastToken.text
    IN  IF section.err # NoParseErr THEN section
        ELSE IF content \in { <<"i", "d", "l", "e">>, <<"l", "o", "w">>,
                              <<"m", "e", "d", "i", "u", "m">>, <<"h", "i", "g", "h">> } THEN section
        ELSE IF /\ CharAt(content, 0) = "r"
                /\ CharAt(content, 1) = "t"
                /\ IsDigit(CharAt(content, 2))
                /\ \/ CharAt(content, 3) = NUL
                   \/ /\ IsDigit(CharAt(content, 3))
                      /\ CharAt(content, 4) = NUL
        THEN IF PriorityLevelOk(ReadUnsigned(SubSeq(content, 3, Len(content))))
             THEN section
             ELSE Outcome(ParseError(section.lexer, "priorityOutOfRange", content, 0, 0),
                          section.lexer, NoContent)
        ELSE Outcome(ParseError(section.lexer, "invalidPriority", content, 0, 0),
                     section.lexer, NoContent)

\* tokenPtr->text != "never"
IsNever(text) == text = <<"n", "e", "v", "e", "r">>

\* ParseWatchdogTimeout(lexer, sectionNameTokenPtr)
ParseWatchdogTimeout(lexer_, sectionNameToken) ==
    LET atColon == SkipWhitespaceAndComments(lexer_)
        atContent == SkipWhitespaceAndComments(Advance(atColon))
        section == Content_t("SimpleSection", sectionNameToken,
                             <<Pulled(atContent)>>, Pulled(atContent))
    IN  IF ~IsMatch(atColon, "COLON")
        THEN Outcome(PullError(atColon, "COLON"), atColon, NoContent)
        ELSE IF IsMatch(atContent, "NAME")
        THEN IF ~IsNever(Pulled(atContent).text)
             THEN Outcome(ParseError(Advance(atContent), "invalidWatchdogTimeoutValue",
                                     Pulled(atContent).text, 0, 0),
                          Advance(atContent), NoContent)
             ELSE Outcome(NoParseErr, Advance(atContent), section)
        ELSE IF IsMatch(atContent, "INTEGER")
        THEN Outcome(NoParseErr, Advance(atContent), section)
        ELSE Outcome(ParseError(atContent, "invalidWatchdogTimeout", <<>>, 0, 0),
                     atContent, NoContent)

\* The section parser of the definition file, handed to ParseFile(): the
\* section name is pulled and names the parser function of the section.
ParseSection(lexer_) ==
    LET nameToken == Pulled(lexer_)
        rest == Advance(lexer_)
    IN  CASE nameToken.text = <<"p", "r", "i", "o", "r", "i", "t", "y">> ->
                ParsePriority(rest, nameToken)
          [] nameToken.text = <<"w", "a", "t", "c", "h", "d", "o", "g", "T", "i", "m", "e", "o", "u", "t">> ->
                ParseWatchdogTimeout(rest, nameToken)
          [] nameToken.text \in { <<"m", "a", "x", "F", "i", "l", "e", "B", "y", "t", "e", "s">>,
                                  <<"m", "a", "x", "T", "h", "r", "e", "a", "d", "s">> } ->
                ParseSimpleSection(rest, nameToken, "INTEGER")
          [] nameToken.text = <<"s", "o", "u", "r", "c", "e", "s">> ->
                OpenList(rest, "TokenListSection", nameToken, "COLON", "OPEN_CURLY")
          [] nameToken.text = <<"e", "x", "e", "c", "u", "t", "a", "b", "l", "e", "s">> ->
                OpenList(rest, "ComplexSection", nameToken, "COLON", "OPEN_CURLY")
          [] OTHER ->
                Outcome(ParseError(rest, "unexpectedSection", nameToken.text, 0, 0),
                        rest, NoContent)

\* The parse tree object whose loop is running.
Innermost == open[Len(open)]

\* Still parsing, inside the loop of an object of the given kind.
InLoopOf(kind) ==
    /\ parsePhase = "parsing"
    /\ parseErr = NoParseErr
    /\ open # <<>>
    /\ Innermost.kind = kind

\* lexer.ThrowException(): parsing of the file ends.
ThrowParseError(err, lexer_) ==
    /\ parseErr' = err
    /\ lexer' = lexer_
    /\ UNCHANGED <<defFile, open, sections, started, parsePhase>>

\* sectionPtr->AddContent(lexer.Pull(tokenType)); SkipWhitespaceAndComments(lexer);
AddContentToken(tokenType) ==
    IF ~IsMatch(lexer, tokenType)
    THEN ThrowParseError(PullError(lexer, tokenType), lexer)
    ELSE /\ open' = [open EXCEPT ![Len(open)].contents = Append(@, Pulled(lexer))]
         /\ lexer' = SkipWhitespaceAndComments(Advance(lexer))
         /\ UNCHANGED <<defFile, sections, started, parseErr, parsePhase>>

\* Variant: the message gives the place the file ends at.
EndOfFileError_AtEnd(kind, nameToken) ==
    ParseError(lexer, kind, nameToken.text, lexer.line, lexer.column)

\* The exception of a list that meets the end of the file.
EndOfFileError(kind, nameToken) ==
    ParseError(lexer, kind, nameToken.text, nameToken.line, nameToken.column)

\* Variant: the section is put before the sections already there.
AddSection_First(section) == <<section>> \o sections

\* defFilePtr->sections.push_back(section)
AddSection(section) == Append(sections, section)

\* One turn of the loop of ParseFile(defFilePtr, beVerbose, sectionParserFunc),
\* the call of the section parser included up to its return or its loop.
ParseFile ==
    /\ parsePhase = "parsing"
    /\ parseErr = NoParseErr
    /\ open = <<>>
    /\ IF IsMatch(lexer, "END_OF_FILE")
       THEN /\ parsePhase' = "parsed"
            /\ UNCHANGED <<defFile, lexer, open, sections, started, parseErr>>
       ELSE IF IsMatch(lexer, "WHITESPACE") \/ IsMatch(lexer, "COMMENT")
       THEN /\ lexer' = Advance(lexer)
            /\ UNCHANGED <<defFile, open, sections, started, parseErr, parsePhase>>
       ELSE IF IsMatch(lexer, "NAME")
       THEN \E section \in {ParseSection(lexer)} :
                /\ started' = Append(started, Pulled(lexer))
                /\ lexer' = section.lexer
                /\ parseErr' = section.err
                /\ open' = IF section.err = NoParseErr /\ section.obj.lastToken = NoToken
                           THEN <<section.obj>> ELSE open
                /\ sections' = IF section.err = NoParseErr /\ section.obj.lastToken # NoToken
                               THEN AddSection(section.obj) ELSE sections
                /\ UNCHANGED <<defFile, parsePhase>>
       ELSE ThrowParseError(ParseError(lexer, "unexpectedChar", <<>>, 0, 0), lexer)
    /\ UNCHANGED <<secVars, genVars, bindVars, apiVars, modVars>>

\* One turn of the loop of ParseTokenListSection(); at the closing '}' the
\* section returns to ParseFile(), which adds it to the sections of the file.
ParseTokenListSection ==
    /\ InLoopOf("TokenListSection")
    /\ IF IsMatch(lexer, "CLOSE_CURLY")
       THEN /\ sections' = AddSection([Innermost EXCEPT !.lastToken = Pulled(lexer)])
            /\ open' = <<>>
            /\ lexer' = Advance(lexer)
            /\ UNCHANGED <<defFile, started, parseErr, parsePhase>>
       ELSE IF IsMatch(lexer, "END_OF_FILE")
       THEN ThrowParseError(EndOfFileError("endOfFileInSection", Innermost.name), lexer)
       ELSE AddContentToken("FILE_PATH")
    /\ UNCHANGED <<secVars, genVars, bindVars, apiVars, modVars>>

\* One turn of the loop of ParseComplexSection(), whose items are compound
\* named items: the content parser pulls the name of the item and begins
\* ParseTokenListNamedItem().
ParseComplexSection ==
    /\ InLoopOf("ComplexSection")
    /\ IF IsMatch(lexer, "CLOSE_CURLY")
       THEN /\ sections' = AddSection([Innermost EXCEPT !.lastToken = Pulled(lexer)])
            /\ open' = <<>>
            /\ lexer' = Advance(lexer)
            /\ UNCHANGED <<defFile, started, parseErr, parsePhase>>
       ELSE IF IsMatch(lexer, "END_OF_FILE")
       THEN ThrowParseError(EndOfFileError("endOfFileInSection", Innermost.name), lexer)
       ELSE IF ~IsMatch(lexer, "NAME")
       THEN ThrowParseError(PullError(lexer, "NAME"), lexer)
       ELSE \E item \in {OpenList(Advance(lexer), "TokenListNamedItem", Pulled(lexer),
                                   "EQUALS", "OPEN_PARENTHESIS")} :
                IF item.err # NoParseErr
                THEN ThrowParseError(item.err, item.lexer)
                ELSE /\ open' = Append(open, item.obj)
                     /\ lexer' = item.lexer
                     /\ UNCHANGED <<defFile, sections, started, parseErr, parsePhase>>
    /\ UNCHANGED <<secVars, genVars, bindVars, apiVars, modVars>>

\* One turn of the loop of ParseTokenListNamedItem(); at the closing ')' the
\* item returns to ParseComplexSection(), which adds it to its contents and
\* skips whitespace and comments.
ParseTokenListNamedItem ==
    /\ InLoopOf("TokenListNamedItem")
    /\ IF IsMatch(lexer, "CLOSE_PARENTHESIS")
       THEN /\ open' = [SubSeq(open, 1, Len(open) - 1) EXCEPT ![Len(open) - 1].contents =
                            Append(@, [Innermost EXCEPT !.lastToken = Pulled(lexer)])]
            /\ lexer' = SkipWhitespaceAndComments(Advance(lexer))
            /\ UNCHANGED <<defFile, sections, started, parseErr, parsePhase>>
       ELSE IF IsMatch(lexer, "END_OF_FILE")
       THEN ThrowParseError(EndOfFileError("endOfFileInItem", Innermost.name), lexer)
       ELSE AddContentToken("FILE_PATH")
    /\ UNCHANGED <<secVars, genVars, bindVars, apiVars, modVars>>

----------------------------------------------------------------------------
\* The values of simple sections (modellerCommon.cpp): GetNonNegativeInt(),
\* GetInt(), GetPositiveInt(), SetWatchdogTimeout().

\* The machine integers, at the width of the model: size_t and
\* unsigned long, ssize_t and long.
ULONG_MAX == 2 ^ WordBits - 1
LONG_MAX == 2 ^ (WordBits - 1) - 1

\* The digits strtoul() and strtol() convert, for base 0: octal after a
\* leading '0', decimal otherwise.  The value saturates one above ULONG_MAX.
RECURSIVE ScanDigits(_, _, _, _)
ScanDigits(text, i, base, acc) ==
    IF IsDigit(CharAt(text, i)) /\ DigitValue(CharAt(text, i)) < base
    THEN LET next == acc * base + DigitValue(CharAt(text, i))
         IN  ScanDigits(text, i + 1, base,
                        IF next > ULONG_MAX THEN ULONG_MAX + 1 ELSE next)
    ELSE [value |-> acc, endPtr |-> i]

\* strtoul(text, &endPtr, 0) and strtol(text, &endPtr, 0) of the text of an
\* INTEGER token: the digits converted and the place conversion stopped at.
StrToInteger(text) ==
    IF CharAt(text, 0) = "0" THEN ScanDigits(text, 1, 8, 0)
    ELSE ScanDigits(text, 0, 10, 0)

\* result *= 1024, in a size_t.
TimesK(result) == (result * 1024) % (ULONG_MAX + 1)

\* *endPtr == 'K'
HasKSuffix(text, endPtr) == CharAt(text, endPtr) = "K"

\* Exceptions of the modeller of sections, and what a function hands back.
SecError(kind, token) == [kind |-> kind, token |-> token]
NoSecErr == SecError("none", NoToken)
Value(err, value) == [err |-> err, value |-> value]

\* GetNonNegativeInt(sectionPtr)
GetNonNegativeInt(section) ==
    LET valueToken == section.contents[1]
        converted == StrToInteger(valueToken.text)
    IN  IF converted.value > ULONG_MAX
        THEN Value(SecError("notNonNegativeInt", valueToken), 0)
        ELSE Value(NoSecErr,
                   IF HasKSuffix(valueToken.text, converted.endPtr)
                   THEN TimesK(converted.value) ELSE converted.value)

\* GetInt(sectionPtr): the size_t result handed back as a ssize_t.
GetInt(section) ==
    LET valueToken == section.contents[1]
        converted == StrToInteger(valueToken.text)
        result == IF HasKSuffix(valueToken.text, converted.endPtr)
                  THEN TimesK(converted.value) ELSE converted.value
    IN  IF converted.value > LONG_MAX
        THEN Value(SecError("notInt", valueToken), 0)
        ELSE Value(NoSecErr,
                   IF result > LONG_MAX THEN result - (ULONG_MAX + 1) ELSE result)

\* GetPositiveInt(sectionPtr)
GetPositiveInt(section) ==
    LET result == GetNonNegativeInt(section)
    IN  IF result.err = NoSecErr /\ result.value = 0
        THEN Value(SecError("notPositiveInt", section.contents[1]), 0)
        ELSE result

\* The section the modeller is at, and its name.
Modelled(name) ==
    /\ parsePhase = "parsed"
    /\ secErr = NoSecErr
    /\ modelled < Len(sections)
    /\ (sections[modelled + 1].name.text = name)

SecCall(fn, result) ==
    [fn |-> fn, section |-> sections[modelled + 1], value |-> result.value]

\* A section that holds a number: the function is called and the value kept.
ModelInteger(fn, result) ==
    /\ secErr' = result.err
    /\ secCall' = SecCall(fn, result)
    /\ modelled' = modelled + 1
    /\ UNCHANGED <<watchdogTimeout, parseVars, genVars, bindVars, apiVars, modVars>>

\* The modeller at a maxFileBytes section: GetNonNegativeInt(sectionPtr)
ModelNonNegativeInt ==
    /\ Modelled(<<"m", "a", "x", "F", "i", "l", "e", "B", "y", "t", "e", "s">>)
    /\ ModelInteger("GetNonNegativeInt", GetNonNegativeInt(sections[modelled + 1]))

\* The modeller at a maxThreads section: GetPositiveInt(sectionPtr)
ModelPositiveInt ==
    /\ Modelled(<<"m", "a", "x", "T", "h", "r", "e", "a", "d", "s">>)
    /\ ModelInteger("GetPositiveInt", GetPositiveInt(sections[modelled + 1]))

\* app.watchdogTimeout before any section sets it.
NotSet == [isSet |-> FALSE, value |-> 0]

\* SetWatchdogTimeout(appPtr, sectionPtr)
SetWatchdogTimeout ==
    /\ Modelled(<<"w", "a", "t", "c", "h", "d", "o", "g", "T", "i", "m", "e", "o", "u", "t">>)
    /\ LET section == sections[modelled + 1]
           tokenPtr == section.contents[1]
           result == IF watchdogTimeout.isSet
                     THEN Value(SecError("onlyOneWatchdogTimeout", section.name), 0)
                     ELSE IF tokenPtr.type = "NAME"
                     THEN Value(NoSecErr, -1)
                     ELSE GetInt(section)
       IN  /\ secErr' = result.err
           /\ secCall' = SecCall("SetWatchdogTimeout", result)
           /\ watchdogTimeout' = IF result.err = NoSecErr
                                 THEN [isSet |-> TRUE, value |-> result.value]
                                 ELSE watchdogTimeout
    /\ modelled' = modelled + 1
    /\ UNCHANGED <<parseVars, genVars, bindVars, apiVars, modVars>>

\* The modeller at any other section, which is not followed here.
ModelOtherSection ==
    /\ parsePhase = "parsed"
    /\ secErr = NoSecErr
    /\ modelled < Len(sections)
    /\ sections[modelled + 1].name.text \notin
          { <<"m", "a", "x", "F", "i", "l", "e", "B", "y", "t", "e", "s">>,
            <<"m", "a", "x", "T", "h", "r", "e", "a", "d", "s">>,
            <<"w", "a", "t", "c", "h", "d", "o", "g", "T", "i", "m", "e", "o", "u", "t">> }
    /\ modelled' = modelled + 1
    /\ UNCHANGED <<watchdogTimeout, secCall, secErr, parseVars, genVars, bindVars,
                   apiVars, modVars>>

----------------------------------------------------------------------------
\* The definition files the parser is given.

\* The decimal text of a number.
RECURSIVE Decimal(_)
Decimal(n) ==
    IF n < 10 THEN <<DigitChars[n + 1]>>
    ELSE Decimal(n \div 10) \o <<DigitChars[(n % 10) + 1]>>

\* The texts of INTEGER tokens: numbers around the limits of the machine
\* integers, with and without the 'K' suffix, and numbers with a leading '0'.
IntegerTexts ==
    LET numbers == { 0, 1, 2, LONG_MAX \div 1024, LONG_MAX \div 1024 + 1,
                     ULONG_MAX \div 1024, ULONG_MAX \div 1024 + 1, ULONG_MAX \div 1024 + 2,
                     LONG_MAX, LONG_MAX + 1, ULONG_MAX, ULONG_MAX + 1 }
    IN  { Decimal(n) : n \in numbers } \cup { Decimal(n) \o <<"K">> : n \in numbers }
        \cup { <<"0", "1", "0">>, <<"0", "1", "0", "K">>, <<"0", "8", "K">> }

\* The texts of NAME tokens given as a priority.
PriorityTexts ==
    { <<"i", "d", "l", "e">>, <<"l", "o", "w">>,
      <<"m", "e", "d", "i", "u", "m">>, <<"h", "i", "g", "h">>,
      <<"r", "t">>, <<"r", "t", "0">>,
      <<"r", "t", "1">>, <<"r", "t", "9">>,
      <<"r", "t", "1", "0">>, <<"r", "t", "3", "2">>,
      <<"r", "t", "3", "3">>, <<"r", "t", "9", "9">>,
      <<"r", "t", "0", "0">>, <<"r", "t", "0", "1">>,
      <<"r", "t", "1", "a">>, <<"r", "t", "a">>,
      <<"r", "t", "a", "1">>, <<"r", "t", "1", "0", "0">>,
      <<"r", "t", "0", "0", "1">>, <<"r", "t", "1", "_">>,
      <<"r">>, <<"r", "x">>,
      <<"r", "e", "a", "l", "t", "i", "m", "e">>, <<"H", "i", "g", "h">>,
      <<"R", "T", "1">>, <<"a", "r", "t", "1">> }

Name(text) == Lexeme("NAME", text)
Punctuation(type) == Lexeme(type, <<type>>)
Space == Lexeme("WHITESPACE", <<" ">>)
EndOfLine == Lexeme("WHITESPACE", Newline)
Comment == Lexeme("COMMENT", <<"/", "/">>)
Path == Lexeme("FILE_PATH", <<"a", ".", "c">>)

\* A file with a token list section and a complex section of two compound
\* named items, laid out over several lines.
ListsFile ==
    << EndOfLine, Name(<<"s", "o", "u", "r", "c", "e", "s">>), Punctuation("COLON"), Space,
       Punctuation("OPEN_CURLY"), Path, Space, Path, Punctuation("CLOSE_CURLY"),
       EndOfLine, Comment, EndOfLine,
       Name(<<"e", "x", "e", "c", "u", "t", "a", "b", "l", "e", "s">>), Punctuation("COLON"), EndOfLine,
       Punctuation("OPEN_CURLY"), EndOfLine,
       Space, Name(<<"e", "x", "e">>), Space, Punctuation("EQUALS"), Space,
       Punctuation("OPEN_PARENTHESIS"), Space, Path, Comment, EndOfLine, Path,
       Punctuation("CLOSE_PARENTHESIS"), EndOfLine,
       Name(<<"a", "p", "p">>), Punctuation("EQUALS"), Punctuation("OPEN_PARENTHESIS"),
       Punctuation("CLOSE_PARENTHESIS"),
       Punctuation("CLOSE_CURLY"), EndOfLine >>

\* A simple section: its name, ':' and its value.
SimpleFile(name, value) == <<Name(name), Punctuation("COLON"), Space, value>>

\* The files: the file of lists, the files it gives when it ends early or when
\* one lexeme of it is another one; and files of one or two simple sections.
DefFiles ==
    LET lexemes == { Space, EndOfLine, Comment, Path, Name(<<"s", "o", "u", "r", "c", "e", "s">>),
                     Name(<<"e", "x", "e">>), Lexeme("INTEGER", <<"1">>) }
                   \cup { Punctuation(type) :
                            type \in { "COLON", "EQUALS", "OPEN_CURLY", "CLOSE_CURLY",
                                       "OPEN_PARENTHESIS", "CLOSE_PARENTHESIS" } }
        timeouts == { Lexeme("INTEGER", i) : i \in IntegerTexts }
                    \cup { Name(<<"n", "e", "v", "e", "r">>), Name(<<"N", "e", "v", "e", "r">>),
                           Name(<<"f", "o", "r", "e", "v", "e", "r">>), Name(<<"n", "e", "v", "e", "r", "m", "o", "r", "e">>),
                           Name(<<"n">>), Path }
        again == { <<>>, <<EndOfLine>> \o SimpleFile(<<"w", "a", "t", "c", "h", "d", "o", "g", "T", "i", "m", "e", "o", "u", "t">>, Name(<<"n", "e", "v", "e", "r">>)),
                   <<EndOfLine>> \o SimpleFile(<<"w", "a", "t", "c", "h", "d", "o", "g", "T", "i", "m", "e", "o", "u", "t">>, Lexeme("INTEGER", <<"5">>)),
                   <<Comment>> \o SimpleFile(<<"p", "r", "i", "o", "r", "i", "t", "y">>, Name(<<"r", "t", "1">>)) }
    IN  { SubSeq(ListsFile, 1, k) : k \in 0..Len(ListsFile) }
        \cup { [ListsFile EXCEPT ![k] = l] : k \in DOMAIN ListsFile, l \in lexemes }
        \cup { SimpleFile(<<"p", "r", "i", "o", "r", "i", "t", "y">>, Name(p)) : p \in PriorityTexts }
        \cup { SimpleFile(<<"p", "r", "i", "o", "r", "i", "t", "y">>, l) : l \in lexemes }
        \cup { SimpleFile(<<"w", "a", "t", "c", "h", "d", "o", "g", "T", "i", "m", "e", "o", "u", "t">>, v) \o a : v \in timeouts, a \in again }
        \cup { SimpleFile(<<"m", "a", "x", "F", "i", "l", "e", "B", "y", "t", "e", "s">>, Lexeme("INTEGER", i)) :
                 i \in IntegerTexts }
        \cup { SimpleFile(<<"m", "a", "x", "T", "h", "r", "e", "a", "d", "s">>, Lexeme("INTEGER", i)) :
                 i \in IntegerTexts }
        \cup { SimpleFile(<<"f", "a", "u", "l", "t", "A", "c", "t", "i", "o", "n">>, Name(<<"r", "e", "s", "t", "a", "r", "t">>)) }

NoSecCall == [fn |-> "none", section |-> NoContent, value |-> 0]

\* The sections of the file have not been modelled.
SecInit ==
    /\ modelled = 0
    /\ watchdogTimeout = NotSet
    /\ secCall = NoSecCall
    /\ secErr = NoSecErr

\* ParseFile() is called for a definition file.
ParseInit ==
    /\ defFile \in DefFiles
    /\ lexer = Lexer_t(defFile)
    /\ open = <<>>
    /\ sections = <<>>
    /\ started = <<>>
    /\ parseErr = NoParseErr
    /\ parsePhase = "parsing"
    /\ SecInit

ParseNext ==
    \/ ParseFile
    \/ ParseTokenListSection
    \/ ParseComplexSection
    \/ ParseTokenListNamedItem
    \/ ModelNonNegativeInt
    \/ ModelPositiveInt
    \/ SetWatchdogTimeout
    \/ ModelOtherSection

\* No definition file is being parsed.
ParseIdle ==
    /\ defFile = <<>>
    /\ lexer = Lexer_t(<<>>)
    /\ open = <<>>
    /\ sections = <<>>
    /\ started = <<>>
    /\ parseErr = NoParseErr
    /\ parsePhase = "idle"
    /\ SecInit

----------------------------------------------------------------------------
\* The specifications: each follows one part of the tool, the others at rest.

\* Generation of one app's build script, without the binary pack.
InitGen == GenInit /\ BindIdle /\ ApiIdle /\ ModInit /\ ParseIdle
SpecGen == InitGen /\ [][GenNext]_vars

\* Generation of the build script of an app of bundled files and
\* executables, with and without the binary pack.
InitPack == PackInit /\ BindIdle /\ ApiIdle /\ ModInit /\ ParseIdle
SpecPack == InitPack /\ [][PackNext]_vars

\* Generation of the staging statements of the app's own items and of its
\* components, keeping track of what the app's own loops bundled.
InitStage == StageInit /\ BindIdle /\ ApiIdle /\ ModInit /\ ParseIdle
SpecStage == InitStage /\ [][StageNext]_vars

\* Generation of the staging statements of the app's own bundled files and
\* directories.
SpecDir == InitGen /\ [][DirNext]_vars

\* The statements for the files of one bundled directory, for every
\* combination of permissions.
InitFlags == FlagsInit /\ BindIdle /\ ApiIdle /\ ModInit /\ ParseIdle
SpecFlags == InitFlags /\ [][FlagsNext]_vars

\* Binding resolution over one system model.
InitBind == BindInit /\ GenIdle /\ ApiIdle /\ ModInit /\ ParseIdle
SpecBind == InitBind /\ [][BindNext]_vars

\* Resolution of .api files and their USETYPES dependencies; in the second
\* specification a call in progress keeps running.
InitApi == ApiInit /\ GenIdle /\ BindIdle /\ ModInit /\ ParseIdle
SpecApi == InitApi /\ [][ApiNext]_vars
SpecApiLive == SpecApi /\ WF_vars(Handler) /\ WF_vars(Return)

\* Modelling of the file-system items of one definition file, up to the
\* start of generation.
InitMod == ModInit /\ GenIdle /\ BindIdle /\ ApiIdle /\ ParseIdle
SpecMod == InitMod /\ [][ModNext]_vars

\* Parsing of one definition file and modelling of its simple sections; in
\* the second specification the parser keeps running.
InitParse == ParseInit /\ GenIdle /\ BindIdle /\ ApiIdle /\ ModInit
SpecParse == InitParse /\ [][ParseNext]_vars
SpecParseLive ==
    SpecParse /\ WF_vars(ParseFile) /\ WF_vars(ParseTokenListSection)
              /\ WF_vars(ParseComplexSection) /\ WF_vars(ParseTokenListNamedItem)

----------------------------------------------------------------------------
\* Properties of the bundling statements.

\* The object the set held for the destination of the last bundle call.
Existing == CHOOSE o \in lastCall.found : TRUE

\* The destination path the definition file declares, given the staging path.
DeclaredDestPath(stagingPath) == SubSeq(stagingPath, 5, Len(stagingPath))

\* The build statements of the script that produce the given output path.
StatementsFor(out) == { k \in DOMAIN script : script[k].out = out }

C2_SameMappingOtherPermissionsFails ==
    \A o \in allBundledFiles :
        ( /\ lastCall.obj # NoObject
          /\ o.srcPath = lastCall.obj.srcPath
          /\ DeclaredDestPath(o.destPath) = DeclaredDestPath(lastCall.obj.destPath)
          /\ o.permissions # lastCall.obj.permissions )
        => genErr.kind \in {"conflict", "permissions"}

\* C3 (as claimed): a bundle call for an object equal (destination, source,
\* permissions) to one in the set raises no error and emits no statement, and
\* the set and the script hold that destination exactly once.
C3_IdenticalMappingBundledOnce ==
    lastCall.found = {lastCall.obj}
        => /\ genErr = NoErr
           /\ Len(script) = lastCall.scriptLen
           /\ Cardinality(FindBundled(allBundledFiles, lastCall.obj)) = 1
           /\ Cardinality(StatementsFor(lastCall.obj.destPath)) = 1

\* C4 (as claimed): a script generated without error has no output path that
\* is the target of two build statements.
C4_NoDuplicateTargets ==
    phase = "done"
        => \A j, k \in DOMAIN script :
              (j # k /\ script[j].rule # "#header" /\ script[k].rule # "#header")
                  => script[j].out # script[k].out

----------------------------------------------------------------------------
\* Properties of the binding resolver.

SystemPass == pass.fn = "EnsureClientInterfacesBound"
AppPass == pass.fn = "EnsureClientInterfacesSatisfied"

\* The last pass reached interface i.
Reached(i) == \E k \in DOMAIN visited : visited[k] = i

\* The last pass ended with an exception thrown for interface i.
RaisedFor(i) ==
    bindErr # NoBindErr /\ visited # <<>> /\ visited[Len(visited)] = i

RootService(i) == ifs[i].internalName \in {"le_cfg", "le_wdog"}

\* C5: an unbound, non-optional le_cfg or le_wdog interface that
\* EnsureClientInterfacesBound reaches gets the binding to the root service of
\* its name (client agent the app, client interface the instance name, server
\* EXTERNAL_USER "root", server interface the service name), and no exception
\* is thrown for it.
C5_RootServiceAutoBound ==
    SystemPass =>
        \A i \in Ifaces :
            (Reached(i) /\ before[i] = NULL /\ ~ifs[i].optional /\ RootService(i))
            => /\ bindingPtr[i].clientAgentName = ifs[i].app
               /\ bindingPtr[i].clientIfName = ifs[i].name
               /\ bindingPtr[i].serverType = "EXTERNAL_USER"
               /\ bindingPtr[i].serverAgentName = "root"
               /\ bindingPtr[i].serverIfName = ifs[i].internalName
               /\ ~RaisedFor(i)

\* C5 witness: an le_wdog interface, marked extern, was auto-bound.
C5_Witness ==
    /\ SystemPass
    /\ \E i \in Ifaces :
          /\ Reached(i) /\ before[i] = NULL /\ ~ifs[i].optional
          /\ ifs[i].internalName = "le_wdog" /\ ifs[i].externMark
          /\ bindingPtr[i].serverIfName = "le_wdog"

\* C6: an unbound, non-optional, non-extern interface other than le_cfg and
\* le_wdog makes EnsureClientInterfacesBound fail, and the exception thrown
\* for it quotes app.exe.component.interface.
C6_UnboundErrorNamesFullPath ==
    SystemPass =>
        \A i \in Ifaces :
            ( /\ before[i] = NULL /\ ~ifs[i].optional
              /\ ~ifs[i].externMark /\ ~RootService(i) )
            => /\ bindErr # NoBindErr
               /\ Reached(i) =>
                    /\ RaisedFor(i)
                    /\ bindErr.kind = "unbound"
                    /\ bindErr.path = <<ifs[i].app, ifs[i].exe, ifs[i].component,
                                        ifs[i].internalName>>

\* C6 witness: the exception was thrown for such an interface, after another
\* interface had been visited.
C6_Witness ==
    /\ SystemPass
    /\ Len(visited) = 2
    /\ \E i \in Ifaces :
          /\ RaisedFor(i) /\ bindErr.kind = "unbound"
          /\ ~ifs[i].externMark /\ ifs[i].internalName = "foo"

\* C7: after EnsureClientInterfacesBound returns normally every client
\* interface is bound or optional; an unbound, non-optional, extern-marked
\* interface other than le_cfg and le_wdog gets an exception when reached.
C7_BoundOrOptionalAfterSystemPass ==
    SystemPass =>
        /\ bindErr = NoBindErr =>
              \A i \in Ifaces : bindingPtr[i] # NULL \/ ifs[i].optional
        /\ \A i \in Ifaces :
              ( /\ Reached(i) /\ before[i] = NULL /\ ~ifs[i].optional
                /\ ifs[i].externMark /\ ~RootService(i) )
              => RaisedFor(i) /\ bindErr.kind = "unboundExtern"

\* C7 witness: the pass returned normally with one interface auto-bound and
\* one left unbound because it is optional.
C7_Witness ==
    /\ SystemPass
    /\ bindErr = NoBindErr
    /\ \E i, j \in Ifaces :
          /\ before[i] = NULL /\ bindingPtr[i] # NULL
          /\ bindingPtr[j] = NULL /\ ifs[j].optional /\ ifs[j].externMark

\* C8: EnsureClientInterfacesSatisfied attaches to an unbound, non-optional,
\* non-extern le_cfg or le_wdog interface the binding BindToRootService makes
\* for the system-level resolver, throws for any other unbound, non-optional,
\* non-extern interface it reaches, and after it returns normally every
\* client interface of the app is bound, marked extern or optional.
C8_SatisfiedAfterAppPass ==
    AppPass =>
        /\ bindErr = NoBindErr =>
              \A i \in Ifaces :
                  ifs[i].app = pass.app
                  => bindingPtr[i] # NULL \/ ifs[i].externMark \/ ifs[i].optional
        /\ \A i \in Ifaces :
              ( /\ Reached(i) /\ before[i] = NULL /\ ~ifs[i].optional
                /\ ~ifs[i].externMark )
              => IF RootService(i)
                 THEN /\ bindingPtr[i] =
                           Binding_t("INTERNAL", ifs[i].app, ifs[i].name,
                                     "EXTERNAL_USER", "root", ifs[i].internalName)
                      /\ bindingPtr[i] = BoundStep(ifs[i], NULL).binding
                      /\ ~RaisedFor(i)
                 ELSE RaisedFor(i) /\ bindErr.kind = "unsatisfied"
        /\ \A i \in Ifaces : ifs[i].app # pass.app => ~Reached(i)

\* C8 witness: the app-level pass returned normally, having auto-bound one
\* interface and left an extern-marked one unbound.
C8_Witness ==
    /\ AppPass
    /\ bindErr = NoBindErr
    /\ \E i, j \in Ifaces :
          /\ before[i] = NULL /\ bindingPtr[i].serverAgentName = "root"
          /\ bindingPtr[j] = NULL /\ ifs[j].externMark /\ ~ifs[j].optional

\* The server app and its extern server interface a binding names exist.
TargetExists(binding) ==
    /\ binding.serverAgentName \in Apps
    /\ binding.serverIfName \in ExternServerInterfaces(binding.serverAgentName)

\* C9: an interface bound to an EXTERNAL_APP server when
\* EnsureClientInterfacesBound runs makes it fail unless the server app and
\* its extern server interface exist; a bound interface is rejected only for
\* that reason.
C9_BindingTargetChecked ==
    SystemPass =>
        \A i \in Ifaces :
            before[i] # NULL =>
                IF before[i].serverType = "EXTERNAL_APP" /\ ~TargetExists(before[i])
                THEN /\ bindErr # NoBindErr
                     /\ Reached(i) =>
                          /\ RaisedFor(i)
                          /\ bindErr.kind \in {"noServerApp", "noServerIf"}
                ELSE ~RaisedFor(i)

\* C9 witness: the pass failed on a binding to an interface that the server
\* app exists but does not export, after accepting a binding to one it does.
C9_Witness ==
    /\ SystemPass
    /\ Len(visited) = 2
    /\ bindErr.kind = "noServerIf"
    /\ before[visited[1]].serverType = "EXTERNAL_APP"
    /\ before[visited[2]].serverAgentName = "appB"

\* C10: whatever order the interfaces are visited in, the pass ends the same
\* way (normally or with an exception) and, when normally, with the same
\* bindings.
C10_OrderIndependent ==
    SystemPass =>
        \A o \in Orders(Ifaces) :
            LET r == RunLoops("EnsureClientInterfacesBound", o, 1,
                              [bindingPtr |-> before, err |-> NoBindErr,
                               visited |-> <<>>])
            IN  /\ (r.err = NoBindErr) = (bindErr = NoBindErr)
                /\ bindErr = NoBindErr => r.bindingPtr = bindingPtr

\* C10 witness: the pass visited the interfaces in descending order and
\* auto-bound both.
C10_Witness ==
    /\ SystemPass
    /\ visited = <<2, 1>>
    /\ bindErr = NoBindErr
    /\ \A i \in {1, 2} : before[i] = NULL /\ bindingPtr[i] # NULL

\* C11: no pass replaces or removes a binding an interface already has
\* (declared, or attached by an earlier pass), and a pass run again right
\* after itself changes no binding.
C11_AutoBindingIdempotent ==
    [][ /\ \A i \in Ifaces :
              bindingPtr[i] # NULL => bindingPtr'[i] = bindingPtr[i]
        /\ (pass' = pass) => (bindingPtr' = bindingPtr)
        /\ (SystemPass /\ bindErr = NoBindErr) => (bindingPtr' = bindingPtr) ]_vars

\* C11 witness: the system-level pass ran over an interface an earlier
\* pass had auto-bound and over one with a declared binding, and kept both.
C11_Witness ==
    /\ SystemPass
    /\ bindErr = NoBindErr
    /\ \E i, j \in Ifaces :
          /\ ifs[i].declared = NULL /\ before[i] # NULL /\ bindingPtr[i] = before[i]
          /\ ifs[j].declared # NULL /\ bindingPtr[j] = ifs[j].declared
          /\ Reached(i) /\ Reached(j)

----------------------------------------------------------------------------
\* Properties of the .api file registry.

\* The object the registry holds for a path, as a set (empty when none).
Registered(path) ==
    IF path \in DOMAIN apiFileMap THEN {apiFileMap[path]} ELSE {}

\* The paths of the files an object includes, in order.
IncludedPaths(ptr) ==
    [k \in DOMAIN apiObjs[ptr].includes |-> apiObjs[apiObjs[ptr].includes[k]].path]

\* C12: at every point of a run no two ApiFile_t objects have the same path,
\* the registry maps each path to the object of that path, every call made
\* for a path (by a modeller or by the handler) has returned the object the
\* registry holds for it, and no file has been parsed more than once.
C12_OneObjectPerPath ==
    /\ \A i, j \in DOMAIN apiObjs : apiObjs[i].path = apiObjs[j].path => i = j
    /\ \A p \in DOMAIN apiFileMap :
          apiFileMap[p] \in DOMAIN apiObjs /\ apiObjs[apiFileMap[p]].path = p
    /\ \A p \in ApiFiles : returned[p] \subseteq Registered(p)
    /\ \A p \in ApiFiles : parsed[p] <= 1

\* C12 witness: a modeller asked again for a file that two other files
\* include, and got the object made for it before.
C12_Witness ==
    /\ callStack = <<>>
    /\ ~apiCall.created
    /\ apiCall.result # NoApiFile
    /\ parsed[apiCall.apiFile] = 1
    /\ \E i, j \in DOMAIN apiObjs :
          /\ i # j /\ i # apiCall.result /\ j # apiCall.result
          /\ \E k \in DOMAIN apiObjs[i].includes :
                apiObjs[i].includes[k] = apiCall.result
          /\ \E k \in DOMAIN apiObjs[j].includes :
                apiObjs[j].includes[k] = apiCall.result

\* An outermost call has returned normally and none is in progress.
Resolved == callStack = <<>> /\ apiErr = NoApiErr

\* C13: every GetApiFilePtr() call in progress comes to an end, whatever
\* cycles the USETYPES directives form: the nesting never exceeds the number
\* of files, no file is parsed twice, and once the outermost call has
\* returned every object's includes list holds, in order, one file for each
\* USETYPES directive of its file, and that file has the name the directive
\* gives.
C13_TerminatesOnCycles ==
    /\ [](Len(callStack) <= Cardinality(ApiFiles))
    /\ [](\A p \in ApiFiles : parsed[p] <= 1)
    /\ (callStack # <<>>) ~> (callStack = <<>>)
    /\ [](Resolved =>
            \A ptr \in DOMAIN apiObjs :
                LET directives == usetypes[apiObjs[ptr].path]
                IN  /\ Len(apiObjs[ptr].includes) = Len(directives)
                    /\ \A k \in DOMAIN directives :
                          GetLastNode(IncludedPaths(ptr)[k])
                              = DependencyName(directives[k]))

\* C13 witness: resolution returned normally for two files that use each
\* other, each in the includes of the other.
C13_Witness ==
    /\ Resolved
    /\ \E i, j \in DOMAIN apiObjs :
          /\ i # j
          /\ \E k \in DOMAIN apiObjs[i].includes : apiObjs[i].includes[k] = j
          /\ \E k \in DOMAIN apiObjs[j].includes : apiObjs[j].includes[k] = i

\* The .api files the message of an exception can name: the one the token
\* it is thrown through stands for.
FilesNamedIn(err) == {err.token.text}

\* C14 (as claimed): when the handler finds a dependency neither in the
\* directory of the including file nor through the search list, resolution
\* ends with an exception that names the including file and the dependency;
\* otherwise a file of that name in the directory of the including file is
\* the one taken.
C14_UnresolvedDependencyNamesBoth ==
    /\ (apiLast.dependency # "" /\ apiLast.found = <<>>)
           => /\ apiErr.kind = "cantFind"
              /\ apiErr.dependency = DependencyName(apiLast.dependency)
              /\ apiLast.apiFile \in FilesNamedIn(apiErr)
    /\ (apiLast.dependency # "" /\ apiLast.found # <<>>)
           => /\ apiErr = NoApiErr
              /\ LET local == Combine(GetContainingDir(apiLast.apiFile),
                                      <<DependencyName(apiLast.dependency)>>)
                 IN  local \in ApiFiles => apiLast.found = local

\* C15 (as claimed): once resolution has returned, no file a modeller asked
\* for directly has the "included" flag, whichever files name it in USETYPES.
C15_RequestedFilesNotIncluded ==
    Resolved =>
        \A p \in requested :
            \A ptr \in Registered(p) : ~apiObjs[ptr].isIncluded

----------------------------------------------------------------------------
\* Properties of the pack statements.

\* The statements of the script with the given rule.
StatementsOf(rule) == { k \in DOMAIN script : script[k].rule = rule }

\* The paths the staging statements put files at.
StagedPaths == { script[k].out : k \in StatementsOf("BundleFile") }

\* The paths a statement lists itself: its input and what follows "|".
ListedBy(stmt) == {stmt.in} \cup stmt.implicit

\* C16 (as claimed): in a finished script the update pack statement lists
\* every staged file, every staged executable and info.properties.
C16_PackListsEveryStagedFile ==
    phase = "done" =>
        \A k \in StatementsOf("PackApp") :
            /\ StagedPaths \subseteq ListedBy(script[k])
            /\ InfoPropertiesPath \in ListedBy(script[k])

\* C16 (amended): in a finished script the one update pack statement lists
\* info.properties and nothing else; the one statement that makes
\* info.properties lists, after "|", every staged file, every staged
\* executable and the config file, so the pack depends on them through it.
C16_PackDependsThroughInfoProperties ==
    phase = "done" =>
        /\ Cardinality(StatementsOf("PackApp")) = 1
        /\ Cardinality(StatementsOf("MakeAppInfoProperties")) = 1
        /\ \A k \in StatementsOf("PackApp") :
              /\ script[k].out = UpdatePackPath
              /\ ListedBy(script[k]) = {InfoPropertiesPath}
              /\ script[k].orderOnly = NoOrderOnly
        /\ \A k \in StatementsOf("MakeAppInfoProperties") :
              /\ script[k].out = InfoPropertiesPath
              /\ script[k].in = <<>>
              /\ StagedPaths \subseteq script[k].implicit
              /\ { ExeDestPath(e) : e \in exesDone } \subseteq script[k].implicit
              /\ ConfigFilePath \in script[k].implicit

\* C16 witness: a finished script that stages a bundled file, a component
\* library and an executable.
C16_Witness ==
    /\ phase = "done"
    /\ exesDone # {}
    /\ \E k \in StatementsOf("BundleFile") : script[k].out = LibDestPath("c1")
    /\ \E k \in StatementsOf("BundleFile") : script[k].in = SrcA

\* C17: in a finished script, with binPack there is exactly one CopyFile
\* statement for each file of the registry (from its path to its last node
\* under the interfaces directory) and one BinPackApp statement, whose input
\* is info.properties and whose order-only part lists the outputs of the
\* CopyFile statements, "||" being written only when there are any; without
\* binPack there is no CopyFile and no BinPackApp statement.
C17_BinPackStatements ==
    phase = "done" =>
        LET copies == StatementsOf("CopyFile")
            packs == StatementsOf("BinPackApp")
            apiFiles == packArgs.apiFiles
        IN  IF packArgs.binPack
            THEN /\ Cardinality(copies) = Len(apiFiles)
                 /\ \A j \in DOMAIN apiFiles :
                       \E k \in copies :
                           /\ script[k].in = apiFiles[j]
                           /\ script[k].out =
                                Combine(InterfacesDir, <<GetLastNode(apiFiles[j])>>)
                 /\ Cardinality(packs) = 1
                 /\ \A k \in packs :
                       /\ script[k].in = InfoPropertiesPath
                       /\ script[k].implicit = {}
                       /\ script[k].orderOnly.written = (apiFiles # <<>>)
                       /\ script[k].orderOnly.deps = { script[c].out : c \in copies }
                       /\ \A c \in copies : c < k
            ELSE copies = {} /\ packs = {}

\* C17 witness: a finished script with the binary pack of an app with a
\* staged file, for a registry of two .api files.
C17_Witness ==
    /\ phase = "done"
    /\ packArgs.binPack
    /\ Len(packArgs.apiFiles) = 2
    /\ allBundledFiles # {}
    /\ \E k \in StatementsOf("BinPackApp") :
          script[k].orderOnly.written /\ Cardinality(script[k].orderOnly.deps) = 2

\* C18 (as claimed): when generation has ended with an exception, nothing
\* (no header, no rule, no build statement) has been written to the script.
C18_NothingWrittenOnError ==
    genErr # NoErr => script = <<>>

----------------------------------------------------------------------------
\* Properties of the file-system items.

\* The source and destination paths of the item of the last call, after
\* environment substitution and unquoting.
ItemSrcPath == Unquote(DoSubstitution(modCall.item.src))
ItemDestPath == Unquote(DoSubstitution(modCall.item.dest))

\* C19: a call of GetRequiredFileOrDir() for an item whose source path, after
\* substitution and unquoting, ends in '/' throws; no FileSystemObject_t is
\* created or returned for the item, modelling goes no further, and nothing
\* is ever written to the build script.
C19_RequiredSourceEndingInSlashRejected ==
    (modCall.fn = "GetRequiredFileOrDir" /\ EndsInSlash(ItemSrcPath))
        => /\ modErr = ModError("srcEndsInSlash", ItemSrcPath)
           /\ numObjs = modCall.objsBefore
           /\ modObj = NoObject
           /\ phase = "idle"
           /\ script = <<>>

\* C19 witness: the second item of a definition file is a required file
\* whose source is an environment variable standing for a path that ends in
\* '/', and it was rejected.
C19_Witness ==
    /\ modCall.fn = "GetRequiredFileOrDir"
    /\ modCall.item.src = PathText(FALSE, <<"$DIR">>)
    /\ modCall.objsBefore = 1
    /\ modErr.kind = "srcEndsInSlash"

\* C20: the object any of the three functions returns has as destination
\* the declared one (after substitution and unquoting) when that does not
\* end in '/', and otherwise the declared one followed by the last node of
\* the source path.
C20_DestinationCompleted ==
    (modCall.fn # "none" /\ modErr = NoModErr)
        => /\ modObj.srcPath = ItemSrcPath
           /\ modObj.destPath =
                IF EndsInSlash(ItemDestPath)
                THEN SubSeq(ItemDestPath, 1, Len(ItemDestPath) - 1)
                       \o <<GetLastNode(ItemSrcPath)>>
                ELSE ItemDestPath

\* C20 witness: a device item with the quoted destination "bin/" got the
\* destination bin/y, y being the last node of its source.
C20_Witness ==
    /\ modCall.fn = "GetRequiredDevice"
    /\ modCall.item.dest = PathText(TRUE, <<"bin", "">>)
    /\ modCall.item.src = PathText(FALSE, <<"a", "$NAME">>)
    /\ modObj.destPath = <<"bin", "y">>

----------------------------------------------------------------------------
\* Required devices.

\* The letters of the permissions token of the item of the last call.
ItemLetters == { modCall.item.perm[i] : i \in DOMAIN modCall.item.perm }

\* C21: GetRequiredDevice() throws exactly when the permissions token of the
\* item holds 'x'; otherwise the device is readable and writeable exactly as
\* the token says, never executable, and a device without a permissions token
\* is readable only.
C21_DeviceExecutableRejected ==
    modCall.fn = "GetRequiredDevice" =>
        /\ (modErr # NoModErr) <=> ("x" \in ItemLetters)
        /\ (modErr # NoModErr) => modErr.kind = "deviceExecutable"
        /\ (modErr = NoModErr) =>
              modObj.permissions =
                  IF modCall.item.perm = NoPermissions
                  THEN Permissions_t(TRUE, FALSE, FALSE)
                  ELSE Permissions_t("r" \in ItemLetters, "w" \in ItemLetters, FALSE)

\* C21 witness: a device item with write and execute permission is rejected.
C21_Witness ==
    /\ modCall.fn = "GetRequiredDevice"
    /\ modCall.item.perm = <<"w", "x">>
    /\ modErr.kind = "deviceExecutable"

----------------------------------------------------------------------------
\* Properties of the values of simple sections.

\* The number an INTEGER token writes, read as a decimal number, times 1024
\* when the token ends in 'K'.
WrittenValue(text) ==
    IF text[Len(text)] = "K"
    THEN 1024 * ReadUnsigned(SubSeq(text, 1, Len(text) - 1))
    ELSE ReadUnsigned(text)

\* The INTEGER token of the section of the last call, if it has one.
CalledWithInteger ==
    /\ secCall.fn \in {"GetNonNegativeInt", "GetPositiveInt", "SetWatchdogTimeout"}
    /\ secCall.section.contents[1].type = "INTEGER"
    /\ secErr.kind # "onlyOneWatchdogTimeout"

\* The least and the greatest value the function of the last call can return.
LeastValue == IF secCall.fn = "GetPositiveInt" THEN 1 ELSE 0
GreatestValue == IF secCall.fn = "SetWatchdogTimeout" THEN LONG_MAX ELSE ULONG_MAX

\* C22: GetNonNegativeInt(), GetPositiveInt() and GetInt() return the number
\* written, times 1024 when it has the suffix 'K', whenever that value is in
\* the range of the function, and throw whenever it is not: no value is
\* returned wrapped or truncated.
C22_IntegerOverflowReported ==
    CalledWithInteger =>
        LET written == WrittenValue(secCall.section.contents[1].text)
        IN  IF LeastValue <= written /\ written <= GreatestValue
            THEN secErr = NoSecErr /\ secCall.value = written
            ELSE secErr # NoSecErr

\* The priority section of a file that holds one, and the name given in it.
PriorityGiven ==
    /\ Len(defFile) = 4
    /\ defFile[1] = Name(<<"p", "r", "i", "o", "r", "i", "t", "y">>)
    /\ defFile[4].type = "NAME"
    /\ started # <<>>

\* The names "rt" with one or two digits after it that write a level from 1
\* to 32.
RealTimeNames ==
    { <<"r", "t">> \o Decimal(n) : n \in 1..32 }
    \cup { <<"r", "t", "0">> \o Decimal(n) : n \in 1..9 }

\* C23: ParsePriority() returns the section when the name is idle, low,
\* medium or high, or is "rt" and one or two digits that write a number from
\* 1 to 32, and throws for every other name.
C23_PriorityAccepted ==
    PriorityGiven =>
        IF defFile[4].text \in { <<"i", "d", "l", "e">>, <<"l", "o", "w">>,
                                 <<"m", "e", "d", "i", "u", "m">>, <<"h", "i", "g", "h">> }
                               \cup RealTimeNames
        THEN /\ parseErr = NoParseErr
             /\ Len(sections) = 1
             /\ sections[1].lastToken.text = defFile[4].text
        ELSE /\ parseErr.kind \in {"invalidPriority", "priorityOutOfRange"}
             /\ sections = <<>>

\* C23 witness: the priority rt32 has been accepted.
C23_Witness ==
    /\ PriorityGiven
    /\ defFile[4].text = <<"r", "t", "3", "2">>
    /\ Len(sections) = 1
    /\ parsePhase = "parsed"

\* The watchdogTimeout section a file begins with, parsed or rejected.
TimeoutGiven ==
    /\ Len(defFile) >= 4
    /\ defFile[1] = Name(<<"w", "a", "t", "c", "h", "d", "o", "g", "T", "i", "m", "e", "o", "u", "t">>)
    /\ started # <<>>

\* C24: a watchdogTimeout section is parsed when its value is an integer or
\* the name never and rejected for any other name; SetWatchdogTimeout() sets
\* the timeout to -1 for never and to the number written, times 1024 when it
\* has the suffix 'K', for an integer.
C24_WatchdogTimeoutValue ==
    /\ TimeoutGiven =>
          IF \/ defFile[4].type = "INTEGER"
             \/ defFile[4] = Name(<<"n", "e", "v", "e", "r">>)
          THEN parseErr = NoParseErr
          ELSE parseErr # NoParseErr /\ sections = <<>>
    /\ (secCall.fn = "SetWatchdogTimeout" /\ secErr.kind # "onlyOneWatchdogTimeout") =>
          LET token == secCall.section.contents[1]
          IN  IF token.type = "NAME"
              THEN secErr = NoSecErr /\ secCall.value = -1
              ELSE IF WrittenValue(token.text) <= LONG_MAX
              THEN secErr = NoSecErr /\ secCall.value = WrittenValue(token.text)
              ELSE secErr # NoSecErr

----------------------------------------------------------------------------
\* Properties of the parser.

\* The line and the column of the lexeme at place k of the file.
LineOf(k) ==
    1 + Cardinality({ j \in 1..(k - 1) : defFile[j].text = Newline })
ColumnOf(k) ==
    Cardinality({ j \in 1..(k - 1) : \A n \in j..(k - 1) : defFile[n].text # Newline })

\* The token is the name at some place of the file, with its line and column.
IsNameOfFile(token) ==
    \E k \in DOMAIN defFile :
        token = Token_t(Name(defFile[k].text), LineOf(k), ColumnOf(k))

\* The file has ended inside the braces or parentheses of a list.
EndsInsideList == open # <<>> /\ lexer.input = <<>>

\* The parser has stopped: the file is parsed or an exception was thrown.
ParseEnded == parsePhase = "parsed" \/ parseErr # NoParseErr

\* The lists among the sections, and the compound named items in them, end
\* with their closing delimiter.
ListsClosed ==
    \A i \in DOMAIN sections :
        /\ sections[i].kind \in {"TokenListSection", "ComplexSection"} =>
              sections[i].lastToken.type = "CLOSE_CURLY"
        /\ sections[i].kind = "ComplexSection" =>
              \A j \in DOMAIN sections[i].contents :
                  sections[i].contents[j].lastToken.type = "CLOSE_PARENTHESIS"

\* C25 as stated: whenever the file ends inside a list, the exception names
\* the innermost list and the line and column of its name token.
C25_EndOfFileNamesEnclosing ==
    (EndsInsideList /\ parseErr # NoParseErr) =>
        /\ parseErr.kind \in {"endOfFileInSection", "endOfFileInItem"}
        /\ parseErr.text = Innermost.name.text
        /\ parseErr.line = Innermost.name.line
        /\ parseErr.column = Innermost.name.column

\* C25, amended: a file that ends inside a list ends parsing with an
\* exception; the exception a list throws when it meets the end of the file
\* in place of its next content or closing delimiter names the list (a
\* section, or a compound named item) and the line and column of its name
\* token in the file; no list is returned without its closing delimiter; and
\* the parser always stops.
C25_EndOfFileInList ==
    /\ [](parseErr.kind \in {"endOfFileInSection", "endOfFileInItem"} =>
            /\ EndsInsideList
            /\ parseErr.kind = IF Innermost.kind = "TokenListNamedItem"
                               THEN "endOfFileInItem" ELSE "endOfFileInSection"
            /\ IsNameOfFile(Innermost.name)
            /\ parseErr.text = Innermost.name.text
            /\ parseErr.line = Innermost.name.line
            /\ parseErr.column = Innermost.name.column)
    /\ [](ListsClosed /\ (parsePhase = "parsed" => open = <<>>))
    /\ (EndsInsideList ~> parseErr # NoParseErr)
    /\ <>ParseEnded

\* C25 witness: the file ended inside a compound named item that began on a
\* later line than the file, and the exception was thrown.
C25_Witness ==
    /\ parseErr.kind = "endOfFileInItem"
    /\ parseErr.line > 1
    /\ parseErr.column > 0
    /\ Len(open) = 2

\* The places of the file where a section begins: the names outside any
\* braces or parentheses that are not the value of a simple section.
SectionNames ==
    { k \in DOMAIN defFile :
        /\ defFile[k].type = "NAME"
        /\ Cardinality({ j \in 1..k : defFile[j].type \in {"OPEN_CURLY", "OPEN_PARENTHESIS"} })
           = Cardinality({ j \in 1..k : defFile[j].type \in {"CLOSE_CURLY", "CLOSE_PARENTHESIS"} })
        /\ ~\E j \in 1..(k - 1) :
              /\ defFile[j].type = "COLON"
              /\ \A n \in (j + 1)..(k - 1) : defFile[n].type \in {"WHITESPACE", "COMMENT"} }

\* C29: ParseFile() stops for every file, and returns only at the end of the
\* file; the section parser is called once for each name a section begins
\* with, and for nothing else, and the sections are the objects it returned,
\* in the order of the file; input that is not whitespace, a comment or a
\* name ends parsing with an exception.
C29_ParseFileTerminates ==
    /\ [](/\ Len(started) \in {Len(sections), Len(sections) + 1}
          /\ \A i \in DOMAIN sections : sections[i].name = started[i]
          /\ \A i \in DOMAIN started :
                /\ started[i].type = "NAME"
                /\ IsNameOfFile(started[i])
                /\ \A j \in 1..(i - 1) :
                      \/ started[j].line < started[i].line
                      \/ /\ started[j].line = started[i].line
                         /\ started[j].column < started[i].column
          /\ parsePhase = "parsed" =>
                /\ lexer.input = <<>>
                /\ parseErr = NoParseErr
                /\ Len(sections) = Cardinality(SectionNames)
          /\ parseErr.kind = "unexpectedChar" =>
                /\ open = <<>>
                /\ lexer.input # <<>>
                /\ Head(lexer.input).type \notin {"WHITESPACE", "COMMENT", "NAME"})
    /\ <>ParseEnded

\* C29 witness: a file of two sections, with whitespace and comments around
\* them, has been parsed.
C29_Witness ==
    /\ parsePhase = "parsed"
    /\ Len(sections) = 2
    /\ sections[1].name.line < sections[2].name.line
    /\ \E k \in DOMAIN defFile : defFile[k].type = "COMMENT"

----------------------------------------------------------------------------
\* Properties of the dependency graph of a finished script.

\* The paths a statement waits for: its input, what follows "|" and what
\* follows "||".
Needs(stmt) == ListedBy(stmt) \cup stmt.orderOnly.deps

\* Statement j can only run after statement k, in every order of execution
\* that respects the dependencies the script declares.
RunsAfter(j, k) == script[k].out \in Needs(script[j])

\* C26: in a finished script the statement that makes info.properties lists
\* after "|" the destination of every object of the bundled set, the staging
\* path of every executable and the config file, and nothing else; every
\* statement that stages a file (a bundled file, a file of a bundled
\* directory, a component library, an executable) is one it runs after, and
\* the update pack statement takes info.properties as its input and so runs
\* after it.
C26_InfoPropertiesAfterStagedContent ==
    phase = "done" =>
        \A i \in StatementsOf("MakeAppInfoProperties") :
            /\ script[i].implicit =
                   { o.destPath : o \in allBundledFiles }
                     \cup { ExeDestPath(e) : e \in exesDone }
                     \cup { ConfigFilePath }
            /\ \A k \in StatementsOf("BundleFile") :
                  /\ RunsAfter(i, k)
                  /\ ~RunsAfter(k, i)
            /\ \A p \in StatementsOf("PackApp") :
                  /\ script[p].in = script[i].out
                  /\ RunsAfter(p, i)
                  /\ ~RunsAfter(i, p)
            /\ StatementsOf("PackApp") # {}

\* C26 witness: a finished script that stages the two files of a bundled
\* directory, one of them in a subdirectory, a component library and an
\* executable.
C26_Witness ==
    /\ phase = "done"
    /\ \E k \in StatementsOf("BundleFile") : script[k].in = <<"a", "sub", "y">>
    /\ \E k \in StatementsOf("BundleFile") : script[k].in = SrcA
    /\ \E k \in StatementsOf("BundleFile") : script[k].in = Lib("c1")
    /\ \E k \in StatementsOf("BundleFile") : script[k].out = ExeDestPath("e1")

----------------------------------------------------------------------------
\* Properties of the order of the bundling loops.

\* The positions inside the loops over the app's own items, and inside the
\* loop over the components of the app.
AppPhases == {"appFiles", "appDirs", "appBinaries"}
ComponentPhases == {"components", "compFiles", "compDirs", "compLib"}

\* C27 (as claimed): no component is visited before the loops over the app's
\* own files, directories and binaries are over, and while the components are
\* visited every object the app's own loops put into the bundled set stays in
\* it and every build statement for its staging destination stages the app's
\* source.
C27_AppItemOverridesComponentItem ==
    /\ phase \in AppPhases => (compsDone = {} /\ appLevel.objects = {})
    /\ phase \in ComponentPhases =>
          \A o \in appLevel.objects :
              /\ o \in allBundledFiles
              /\ \A k \in StatementsFor(o.destPath) : script[k].in = o.srcPath

----------------------------------------------------------------------------
\* Properties of directory bundling.

\* The paths, relative to a directory, of what the file system holds beneath
\* it: each node is an entry of the directory the nodes before it lead to.
EntryNames == {"x", "y", "s", "sub"}
RelPaths == { <<n>> : n \in EntryNames } \cup { <<m, n>> : m, n \in EntryNames }
IsBeneath(dir, rel) ==
    \A i \in 1..Len(rel) : rel[i] \in DirEntries(Combine(dir, SubSeq(rel, 1, i - 1)))

\* The regular files beneath a directory, and the entries beneath it that are
\* neither a regular file nor a directory.
FilesBeneath(dir) ==
    { rel \in RelPaths : IsBeneath(dir, rel) /\ FileExists(Combine(dir, rel)) }
OthersBeneath(dir) ==
    { rel \in RelPaths : /\ IsBeneath(dir, rel)
                         /\ ~FileExists(Combine(dir, rel))
                         /\ ~DirectoryExists(Combine(dir, rel)) }

\* The objects the claim has a bundled directory item expand to.
Expanded(item) ==
    { FileSystemObject_t(Combine(item.srcPath, rel),
                         Combine(StagingDestPath(item), rel),
                         item.permissions) : rel \in FilesBeneath(item.srcPath) }

DirPhases == {"appDirs", "compDirs"}

\* The last step was a bundle call for an entry of a directory.
EntryCalled ==
    /\ lastCall.obj # NoObject
    /\ phase \in DirPhases \/ (phase = "failed" /\ pending # <<>>)

\* C28: every bundle call made for an entry of a bundled directory is for a
\* regular file beneath it, with the staging destination of the item followed
\* by the path of the file relative to the directory and with the permissions
\* of the item; it is checked against the bundled set as a bundled file is
\* (no object for the destination: one statement written, with the mode flags
\* of the item's permissions; the same object: nothing written; another
\* source: the conflict error; other permissions: the permissions error).
\* When the loop over a directory has ended without an exception, the script
\* has exactly one statement for every regular file beneath it, at any depth,
\* no statement stages a directory, "." or "..", and nothing beneath it is
\* other than a file or a directory; the exception for such an entry names
\* its path.
C28_DirectoryExpanded ==
    /\ EntryCalled =>
          /\ \E item \in DirItems : lastCall.obj \in Expanded(item)
          /\ IF lastCall.found = {}
             THEN /\ Len(script) = lastCall.scriptLen + 1
                  /\ script[Len(script)] =
                       BuildStmt(lastCall.obj.destPath, "BundleFile",
                                 lastCall.obj.srcPath,
                                 PermissionsToModeFlags(lastCall.obj.permissions), {})
                  /\ lastCall.obj \in allBundledFiles
                  /\ genErr = NoErr
             ELSE /\ Len(script) = lastCall.scriptLen
                  /\ lastCall.found \subseteq allBundledFiles
                  /\ genErr.kind =
                       IF Existing.srcPath # lastCall.obj.srcPath THEN "conflict"
                       ELSE IF Existing.permissions # lastCall.obj.permissions
                       THEN "permissions"
                       ELSE "none"
    /\ (EntryCalled /\ phase \in DirPhases /\ pending = <<>>) =>
          \A item \in DirItems :
              lastCall.obj \in Expanded(item) =>
                  /\ \A e \in Expanded(item) :
                        /\ Cardinality(StatementsFor(e.destPath)) = 1
                        /\ \A k \in StatementsFor(e.destPath) :
                              /\ script[k].in = e.srcPath
                              /\ script[k].modeFlags =
                                   PermissionsToModeFlags(item.permissions)
                  /\ OthersBeneath(item.srcPath) = {}
    /\ \A k \in StatementsOf("BundleFile") :
          /\ ~DirectoryExists(script[k].in)
          /\ GetLastNode(script[k].in) \notin {".", ".."}
    /\ genErr.kind = "unsupported" =>
          /\ phase = "failed"
          /\ \E item \in DirItems :
                \E rel \in OthersBeneath(item.srcPath) :
                    genErr.srcPath = Combine(item.srcPath, rel)

\* C28 witness: the loop over a directory bundled to a destination of its own
\* has ended: the script stages its file and the file of its subdirectory.
C28_Witness ==
    /\ EntryCalled /\ phase \in DirPhases /\ pending = <<>>
    /\ \E k \in StatementsOf("BundleFile") :
          /\ script[k].in = <<"a", "sub", "y">>
          /\ script[k].out =
               <<"$builddir", WorkingDir, "staging", "read-only", "d", "sub", "y">>
    /\ \E k \in StatementsOf("BundleFile") :
          /\ script[k].in = SrcA
          /\ script[k].out =
               <<"$builddir", WorkingDir, "staging", "read-only", "d", "x">>

----------------------------------------------------------------------------
\* Properties of the mode flags.

\* The string the pieces of the mode flags make.
Joined(flags) ==
    flags[1] \o flags[2] \o flags[3] \o flags[4]
             \o flags[5] \o flags[6] \o flags[7] \o flags[8]

\* The mode flags the claim gives to each combination of permissions.
ModeString(permissions) ==
    LET r == permissions.readable
        w == permissions.writeable
        x == permissions.executable
    IN  CASE ~r /\ ~w /\ ~x -> "u+rw-x,g+r-x,o-x-r-w"
          []  r /\ ~w /\ ~x -> "u+rw-x,g+r-x,o-x+r-w"
          [] ~r /\  w /\ ~x -> "u+rw-x,g+r-x,o-x-r+w"
          []  r /\  w /\ ~x -> "u+rw-x,g+r-x,o-x+r+w"
          [] ~r /\ ~w /\  x -> "u+rw+x,g+r+x,o+x-r-w"
          []  r /\ ~w /\  x -> "u+rw+x,g+r+x,o+x+r-w"
          [] ~r /\  w /\  x -> "u+rw+x,g+r+x,o+x-r+w"
          []  r /\  w /\  x -> "u+rw+x,g+r+x,o+x+r+w"

\* The object of the bundled set a statement of the script stages.
StagedBy(k) == CHOOSE o \in allBundledFiles : o.destPath = script[k].out

\* C30: the mode flags of every statement written for a bundled object are
\* the string the claim gives for the permissions of the object, whatever its
\* source and destination; they begin with "u+rw" and go on with ",g+r" after
\* the execute flag; and the eight combinations of permissions give eight
\* different strings.
C30_ModeFlagsOfPermissions ==
    /\ \A k \in StatementsOf("BundleFile") :
          /\ \E o \in allBundledFiles : o.destPath = script[k].out
          /\ Joined(script[k].modeFlags) = ModeString(StagedBy(k).permissions)
          /\ script[k].modeFlags[1] = "u+rw"
          /\ script[k].modeFlags[3] = ",g+r"
    /\ \A j, k \in StatementsOf("BundleFile") :
          StagedBy(j).permissions = StagedBy(k).permissions
              => script[j].modeFlags = script[k].modeFlags
    /\ Cardinality({ Joined(PermissionsToModeFlags(p)) : p \in AllPermissions }) = 8

\* C30 witness: the two files of a directory bundled with write and execute
\* permission but without read permission have been given their statements.
C30_Witness ==
    /\ Cardinality(StatementsOf("BundleFile")) = 2
    /\ \A k \in StatementsOf("BundleFile") :
          /\ StagedBy(k).permissions = Permissions_t(FALSE, TRUE, TRUE)
          /\ Joined(script[k].modeFlags) = "u+rw+x,g+r+x,o+x-r+w"

====
